---- MODULE Spec2Model ----
(***************************************************************************)
(* Model of the three-tier rate limiter of RepoAuditor-AI                  *)
(* (app/utils/rate_limiter.py).                                            *)
(*                                                                         *)
(* Time is counted in ticks of thirty minutes: USER_WINDOW and             *)
(* CLEANUP_INTERVAL (one hour each) are two ticks, a UTC calendar day is   *)
(* DayTicks ticks.  A timestamp is the tick at which it was taken, a date  *)
(* is the day number of a tick.                                            *)
(*                                                                         *)
(* check_and_record is modelled statement by statement: every thread has a *)
(* program counter and the store file is only touched under self._lock.    *)
(* The clock may advance between any two statements.                       *)
(***************************************************************************)
EXTENDS Integers, Sequences, FiniteSets, TLC

\* ------------------------------------------------------------------ bounds
NumThreads == 2
MaxCalls == 2
MaxElapsed == 2

\* ------------------------------------------------------- program constants
USER_LIMIT == 5
PR_LIMIT == 10
REPO_LIMIT == 50
USER_WINDOW == 2
CLEANUP_INTERVAL == 2

DayTicks == 24 * USER_WINDOW
StartClock == DayTicks - 2
MaxClock == StartClock + MaxElapsed

Threads == 1..NumThreads
Users == {"u1", "u2"}
Repos == {"r1", "r2"}
PRNumbers == {7}
Commands == {"review"}

NoThread == 0
NoData == [absent |-> TRUE]
NoArgs == [absent |-> TRUE]
\* get_limits_status takes no command
NoCommand == "-"

Day(t) == t \div DayTicks

\* f"{repo}#{pr_number}": pr_number is an int, so the key determines the pair
PrKey(repo, pr_number) == <<repo, pr_number>>

\* dict helpers: a dict is a function whose DOMAIN is its key set
Put(f, k, v) == [x \in (DOMAIN f) \cup {k} |-> IF x = k THEN v ELSE f[x]]
Drop(f, S) == [x \in (DOMAIN f) \ S |-> f[x]]
EmptyDict == [x \in {} |-> 0]

\* the outcome of a call: nothing yet, a normal return, or the exception
NoResult == [outcome |-> "none"]
Returned == [outcome |-> "returned"]
RateLimitExceeded(limit_type, limit, window) ==
    [outcome |-> "raised",
     limit_type |-> limit_type, limit |-> limit, window |-> window]
\* the outcome of a status query: the returned dictionary
Status(status) == [outcome |-> "status", status |-> status]

\* -------------------------------------------------------- pure operations
initial_data(now) ==
    [last_cleanup |-> now,
     per_user |-> EmptyDict, per_pr |-> EmptyDict, per_repo |-> EmptyDict]

\* mutant: the window is half an hour short
in_window_short(timestamp, now) == timestamp > now - (USER_WINDOW - 1)

in_window(timestamp, now) == timestamp > now - USER_WINDOW

user_commands(d, user) ==
    IF user \in DOMAIN d.per_user THEN d.per_user[user].commands ELSE <<>>

\* mutant: the commands of every user are counted against the caller
count_user_commands_any(d, user, now) ==
    LET all == UNION {{<<u, i>> : i \in 1..Len(d.per_user[u].commands)} :
                         u \in DOMAIN d.per_user}
    IN Cardinality({e \in all :
          in_window(d.per_user[e[1]].commands[e[2]].timestamp, now)})

count_user_commands(d, user, now) ==
    LET commands == user_commands(d, user)
    IN Cardinality({i \in 1..Len(commands) : in_window(commands[i].timestamp, now)})

count_pr_commands(d, pr_key) ==
    IF pr_key \in DOMAIN d.per_pr THEN d.per_pr[pr_key].total_count ELSE 0

count_repo_commands(d, repo, now) ==
    IF repo \notin DOMAIN d.per_repo THEN 0
    ELSE IF d.per_repo[repo].date # Day(now) THEN 0
    ELSE d.per_repo[repo].count_today

\* mutant: the comparison lets the count reach the ceiling plus one
user_limit_hit_above(user_count) == user_count > USER_LIMIT

user_limit_hit(user_count) == user_count >= USER_LIMIT
\* mutant: the comparison lets the total reach the ceiling plus one
pr_limit_hit_above(pr_count) == pr_count > PR_LIMIT

pr_limit_hit(pr_count) == pr_count >= PR_LIMIT
repo_limit_hit(repo_count) == repo_count >= REPO_LIMIT

\* mutant: the new event is put in front of the list
record_user_front(d, user, command, now) ==
    LET old == user_commands(d, user)
    IN Put(d.per_user, user,
           [commands |-> <<[command |-> command, timestamp |-> now]>> \o old])

record_user(d, user, command, now) ==
    LET old == user_commands(d, user)
    IN Put(d.per_user, user,
           [commands |-> Append(old, [command |-> command, timestamp |-> now])])

record_pr(d, user, pr_key, command, now) ==
    LET old == IF pr_key \in DOMAIN d.per_pr THEN d.per_pr[pr_key]
               ELSE [commands |-> <<>>, total_count |-> 0]
    IN Put(d.per_pr, pr_key,
           [commands |-> Append(old.commands,
                [command |-> command, timestamp |-> now, user |-> user]),
            total_count |-> old.total_count + 1])

\* mutant: a new day updates the date and keeps counting from the old count
record_repo_carry(d, repo, command, now) ==
    LET today == Day(now)
        old == IF repo \in DOMAIN d.per_repo THEN d.per_repo[repo]
               ELSE [commands |-> <<>>, count_today |-> 0, date |-> today]
    IN Put(d.per_repo, repo,
           [commands |-> Append(old.commands,
                [command |-> command, timestamp |-> now]),
            count_today |-> old.count_today + 1,
            date |-> today])

record_repo(d, repo, command, now) ==
    LET today == Day(now)
        stored == IF repo \in DOMAIN d.per_repo THEN d.per_repo[repo]
                  ELSE [commands |-> <<>>, count_today |-> 0, date |-> today]
        old == IF stored.date # today
               THEN [commands |-> <<>>, count_today |-> 0, date |-> today]
               ELSE stored
    IN Put(d.per_repo, repo,
           [commands |-> Append(old.commands,
                [command |-> command, timestamp |-> now]),
            count_today |-> old.count_today + 1,
            date |-> old.date])

record_command(d, user, repo, pr_number, command, now) ==
    [last_cleanup |-> d.last_cleanup,
     per_user |-> record_user(d, user, command, now),
     per_pr |-> record_pr(d, user, PrKey(repo, pr_number), command, now),
     per_repo |-> record_repo(d, repo, command, now)]

should_cleanup(d, now) == now - d.last_cleanup > CLEANUP_INTERVAL

\* mutant: the cleanup keeps a shorter window than the count looks at
filter_commands_short(commands, now) ==
    SelectSeq(commands, LAMBDA cmd : in_window_short(cmd.timestamp, now))

filter_commands(commands, now) ==
    SelectSeq(commands, LAMBDA cmd : in_window(cmd.timestamp, now))

\* mutant: a user without recent commands keeps its key, with an empty list
cleanup_users_keep_key(per_user, now) ==
    [u \in DOMAIN per_user |->
        [commands |-> filter_commands(per_user[u].commands, now)]]

cleanup_users(per_user, now) ==
    LET kept == {u \in DOMAIN per_user :
                    filter_commands(per_user[u].commands, now) # <<>>}
    IN [u \in kept |-> [commands |-> filter_commands(per_user[u].commands, now)]]

\* mutant: a repo of another day is reset to zero for today and kept
cleanup_repos_reset(per_repo, now) ==
    [r \in DOMAIN per_repo |->
        IF per_repo[r].date # Day(now)
        THEN [commands |-> <<>>, count_today |-> 0, date |-> Day(now)]
        ELSE per_repo[r]]

cleanup_repos(per_repo, now) ==
    Drop(per_repo, {r \in DOMAIN per_repo : per_repo[r].date # Day(now)})

\* mutant: a PR without recent commands is evicted like a user
cleanup_prs_evict(per_pr, now) ==
    Drop(per_pr, {k \in DOMAIN per_pr :
                    filter_commands(per_pr[k].commands, now) = <<>>})

\* the cleanup has no statement for per_pr: PR records are kept as they are
cleanup_prs(per_pr, now) == per_pr

cleanup_old_entries(d, now) ==
    [last_cleanup |-> now,
     per_user |-> cleanup_users(d.per_user, now),
     per_pr |-> cleanup_prs(d.per_pr, now),
     per_repo |-> cleanup_repos(d.per_repo, now)]

\* ------------------------------------------------------------------ state
VARIABLES
    clock,     \* datetime.now(timezone.utc), in ticks
    file,      \* content of data/rate_limits.json
    lock,      \* owner of self._lock, or NoThread
    pc,        \* per thread: the statement of check_and_record it is at
    args,      \* per thread: (user, repo, pr_number, command) of its call
    data,      \* per thread: the dict returned by _load_data, as updated since
    counts,    \* per thread: user_count, pr_count, repo_count
    result,    \* per thread: NoResult, Returned or a RateLimitExceeded
    calls,     \* number of calls started so far
    loaded,    \* history: per thread, the store as its call loaded it
    seed,      \* history: the store the service started with
    history    \* history: the admitted calls, in the order they returned

\* the state of the rate limiter's callers and of its store
limiter_vars == <<clock, file, lock, pc, args, data, counts, result, calls,
                  loaded, seed, history>>

VARIABLES
    tmp        \* the content of the temporary file next to the data file

VARIABLES
    pipeline,  \* the pipeline of the run in hand, or "none"
    node,      \* the node to execute next, "END", "raised", or "idle"
    state,     \* the State of the run
    trace,     \* history: the nodes called so far, and whether the body ran
    effects,   \* history: what the nodes of the run did outside the State
    response,  \* the AgentResponse of the handler, or None
    tracking,  \* the record file of the incremental review of the PR
    decisions  \* history: the labels the routing functions returned

pipeline_vars ==
    <<pipeline, node, state, trace, effects, response, tracking, decisions>>

\* the state the rate limiter's calls leave alone when every write succeeds
others == <<tmp, pipeline_vars>>

\* a file that does not exist, and a file whose JSON text is incomplete
NoFile == [missing |-> TRUE]
Partial == [partial |-> TRUE]

\* Python's None
None == [none |-> TRUE]

\* no pipeline run is in hand
PipelinesIdle ==
    /\ pipeline = "none"
    /\ node = "idle"
    /\ state = None
    /\ trace = <<>>
    /\ effects = {}
    /\ response = None
    /\ tracking = NoFile
    /\ decisions = {}

vars == <<limiter_vars, others>>

\* json.load succeeds and the result has the key "limits"
is_store(f) == "per_user" \in DOMAIN f

PrKeys == {PrKey(r, n) : r \in Repos, n \in PRNumbers}
NoCounts == [user_count |-> 0, pr_count |-> 0, repo_count |-> 0]

\* Stores an earlier run of the service can have left in the data file: the
\* constructor keeps an existing file (lines 77-78).  Only the entries of the
\* modelled keys are shown; the earlier calls are those of callers and
\* pull requests outside Users and PrKeys.
SeedCommands(n, ev) == [i \in 1..n |-> ev]

SeedUser(n, now) ==
    IF n = 0 THEN EmptyDict
    ELSE [u \in {"u1"} |->
            [commands |-> SeedCommands(n, [command |-> "review", timestamp |-> now])]]

SeedPR(n, now) ==
    IF n = 0 THEN EmptyDict
    ELSE [k \in {PrKey("r1", 7)} |->
            [commands |-> SeedCommands(n,
                [command |-> "review", timestamp |-> now, user |-> "u0"]),
             total_count |-> n]]

SeedRepo(n, now) ==
    IF n = 0 THEN EmptyDict
    ELSE [r \in {"r1"} |->
            [commands |-> SeedCommands(n, [command |-> "review", timestamp |-> now]),
             count_today |-> n,
             date |-> Day(now)]]

\* (events of u1, total of r1#7, count of r1): the empty store of a first
\* start, and stores with the counters of u1, r1#7 and r1 next to a ceiling
SeedCounts ==
    {<<0, 0, 0>>} \cup
    ({USER_LIMIT - 1} \X {0, PR_LIMIT - 1, PR_LIMIT} \X {0, REPO_LIMIT - 1})

SeedStores ==
    {[last_cleanup |-> StartClock - 1,
      per_user |-> SeedUser(n[1], StartClock),
      per_pr |-> SeedPR(n[2], StartClock),
      per_repo |-> SeedRepo(n[3], StartClock)] : n \in SeedCounts}

Init ==
    /\ clock = StartClock
    /\ file \in SeedStores
    /\ seed = file
    /\ history = <<>>
    /\ lock = NoThread
    /\ pc = [t \in Threads |-> "idle"]
    /\ args = [t \in Threads |-> NoArgs]
    /\ data = [t \in Threads |-> NoData]
    /\ loaded = [t \in Threads |-> NoData]
    /\ counts = [t \in Threads |-> NoCounts]
    /\ result = [t \in Threads |-> NoResult]
    /\ calls = 0
    /\ tmp = NoFile
    /\ PipelinesIdle

\* ---------------------------------------------------------------- actions
\* time passes
Tick ==
    /\ clock < MaxClock
    /\ clock' = clock + 1
    /\ UNCHANGED <<file, lock, pc, args, data, counts, result, calls,
                   loaded, seed, history>>
    /\ UNCHANGED others

\* a caller enters check_and_record(user, repo, pr_number, command)
Call(t) ==
    /\ pc[t] = "idle"
    /\ calls < MaxCalls
    /\ \E u \in Users, r \in Repos, n \in PRNumbers, c \in Commands :
          args' = [args EXCEPT ![t] =
                      [user |-> u, repo |-> r, pr_number |-> n, command |-> c]]
    /\ pc' = [pc EXCEPT ![t] = "lock"]
    /\ result' = [result EXCEPT ![t] = NoResult]
    /\ calls' = calls + 1
    /\ UNCHANGED <<clock, file, lock, data, counts, loaded, seed, history>>
    /\ UNCHANGED others

\* a caller enters get_limits_status(user, repo, pr_number)
StatusCall(t) ==
    /\ pc[t] = "idle"
    /\ calls < MaxCalls
    /\ \E u \in Users, r \in Repos, n \in PRNumbers :
          args' = [args EXCEPT ![t] =
                      [user |-> u, repo |-> r, pr_number |-> n,
                       command |-> NoCommand]]
    /\ pc' = [pc EXCEPT ![t] = "lock"]
    /\ result' = [result EXCEPT ![t] = NoResult]
    /\ calls' = calls + 1
    /\ UNCHANGED <<clock, file, lock, data, counts, loaded, seed, history>>
    /\ UNCHANGED others

\* mutant: the block is entered without waiting for the lock
lock_free_always(t) == TRUE

\* threading.Lock: acquire succeeds only while nobody holds the lock
lock_free(t) == lock = NoThread

\* with self._lock: data = self._load_data()
Acquire(t) ==
    /\ pc[t] = "lock"
    /\ lock_free(t)
    /\ is_store(file)
    /\ lock' = t
    /\ data' = [data EXCEPT ![t] = file]
    /\ loaded' = [loaded EXCEPT ![t] = file]
    /\ pc' = [pc EXCEPT ![t] = IF args[t].command = NoCommand
                                THEN "status" ELSE "check_user"]
    /\ UNCHANGED <<clock, file, args, counts, result, calls, seed, history>>
    /\ UNCHANGED others

\* mutant: the attempt is recorded and saved before the exception leaves
store_on_reject_recorded(f, d, a, now) ==
    record_command(d, a.user, a.repo, a.pr_number, a.command, now)

\* what a raise inside the with block leaves in the file: the call returns
\* before _record_command and _save_data, so the file is as it was
store_on_reject(f, d, a, now) == f

\* raise RateLimitExceeded(...): the exception is on its way out of the block
Raise(t, exc) ==
    /\ result' = [result EXCEPT ![t] = exc]
    /\ pc' = [pc EXCEPT ![t] = "exit"]
    /\ file' = store_on_reject(file, data[t], args[t], clock)

CheckUser(t) ==
    /\ pc[t] = "check_user"
    /\ LET user_count == count_user_commands(data[t], args[t].user, clock)
       IN /\ counts' = [counts EXCEPT ![t].user_count = user_count]
          /\ IF user_limit_hit(user_count)
             THEN Raise(t, RateLimitExceeded("User", USER_LIMIT, "hour"))
             ELSE /\ pc' = [pc EXCEPT ![t] = "check_pr"]
                  /\ UNCHANGED <<result, file>>
    /\ UNCHANGED <<clock, lock, args, data, calls, loaded, seed, history>>
    /\ UNCHANGED others

CheckPR(t) ==
    /\ pc[t] = "check_pr"
    /\ LET pr_key == PrKey(args[t].repo, args[t].pr_number)
           pr_count == count_pr_commands(data[t], pr_key)
       IN /\ counts' = [counts EXCEPT ![t].pr_count = pr_count]
          /\ IF pr_limit_hit(pr_count)
             THEN Raise(t, RateLimitExceeded("PR", PR_LIMIT, "total"))
             ELSE /\ pc' = [pc EXCEPT ![t] = "check_repo"]
                  /\ UNCHANGED <<result, file>>
    /\ UNCHANGED <<clock, lock, args, data, calls, loaded, seed, history>>
    /\ UNCHANGED others

CheckRepo(t) ==
    /\ pc[t] = "check_repo"
    /\ LET repo_count == count_repo_commands(data[t], args[t].repo, clock)
       IN /\ counts' = [counts EXCEPT ![t].repo_count = repo_count]
          /\ IF repo_limit_hit(repo_count)
             THEN Raise(t, RateLimitExceeded("Repository", REPO_LIMIT, "day"))
             ELSE /\ pc' = [pc EXCEPT ![t] = "record"]
                  /\ UNCHANGED <<result, file>>
    /\ UNCHANGED <<clock, lock, args, data, calls, loaded, seed, history>>
    /\ UNCHANGED others

\* self._record_command(data, user, repo, pr_number, command)
Record(t) ==
    /\ pc[t] = "record"
    /\ data' = [data EXCEPT ![t] =
                  record_command(data[t], args[t].user, args[t].repo,
                                 args[t].pr_number, args[t].command, clock)]
    /\ pc' = [pc EXCEPT ![t] = "cleanup"]
    /\ UNCHANGED <<clock, file, lock, args, counts, result, calls,
                   loaded, seed, history>>
    /\ UNCHANGED others

\* the data after "if self._should_cleanup(data): self._cleanup_old_entries(data)"
cleanup_if_due(d, now) ==
    IF should_cleanup(d, now) THEN cleanup_old_entries(d, now) ELSE d

\* the timestamp _record_command gave to the call of thread t
recorded_timestamp(t) ==
    LET commands == data[t].per_pr[PrKey(args[t].repo, args[t].pr_number)].commands
    IN commands[Len(commands)].timestamp

\* the cleanup check, then self._save_data(data); the call returns None
CleanupSave(t) ==
    /\ pc[t] = "cleanup"
    /\ data' = [data EXCEPT ![t] = cleanup_if_due(data[t], clock)]
    /\ file' = data'[t]
    /\ result' = [result EXCEPT ![t] = Returned]
    /\ pc' = [pc EXCEPT ![t] = "exit"]
    /\ history' = Append(history,
                     [user |-> args[t].user, repo |-> args[t].repo,
                      pr_number |-> args[t].pr_number,
                      command |-> args[t].command,
                      timestamp |-> recorded_timestamp(t)])
    /\ UNCHANGED <<clock, lock, args, counts, calls, loaded, seed>>
    /\ UNCHANGED others

\* mutant: the repo's "remaining" is taken from the PR count
limits_status_pr_for_repo(d, user, repo, pr_number, now1, now2, now3, now4) ==
    LET pr_key == PrKey(repo, pr_number)
    IN [user |-> [count |-> count_user_commands(d, user, now1),
                  limit |-> USER_LIMIT,
                  window |-> "hour",
                  remaining |-> USER_LIMIT - count_user_commands(d, user, now2)],
        pr |-> [count |-> count_pr_commands(d, pr_key),
                limit |-> PR_LIMIT,
                window |-> "total",
                remaining |-> PR_LIMIT - count_pr_commands(d, pr_key)],
        repo |-> [count |-> count_repo_commands(d, repo, now3),
                  limit |-> REPO_LIMIT,
                  window |-> "day",
                  remaining |-> REPO_LIMIT - count_pr_commands(d, pr_key)]]

\* the dictionary get_limits_status returns; every count and every
\* "remaining" is a call of its own to a count function, and the user and
\* repo counts read the clock at each call
limits_status(d, user, repo, pr_number, now1, now2, now3, now4) ==
    LET pr_key == PrKey(repo, pr_number)
    IN [user |-> [count |-> count_user_commands(d, user, now1),
                  limit |-> USER_LIMIT,
                  window |-> "hour",
                  remaining |-> USER_LIMIT - count_user_commands(d, user, now2)],
        pr |-> [count |-> count_pr_commands(d, pr_key),
                limit |-> PR_LIMIT,
                window |-> "total",
                remaining |-> PR_LIMIT - count_pr_commands(d, pr_key)],
        repo |-> [count |-> count_repo_commands(d, repo, now3),
                  limit |-> REPO_LIMIT,
                  window |-> "day",
                  remaining |-> REPO_LIMIT - count_repo_commands(d, repo, now4)]]

\* get_limits_status builds its dictionary from the loaded data and returns
\* it; nothing is recorded and nothing is saved
GetStatus(t) ==
    /\ pc[t] = "status"
    /\ \E now1, now2, now3, now4 \in clock..MaxClock :
          /\ now1 = clock /\ now1 <= now2 /\ now2 <= now3 /\ now3 <= now4
          /\ clock' = now4
          /\ result' = [result EXCEPT ![t] =
                          Status(limits_status(data[t], args[t].user,
                                               args[t].repo, args[t].pr_number,
                                               now1, now2, now3, now4))]
    /\ pc' = [pc EXCEPT ![t] = "exit"]
    /\ UNCHANGED <<file, lock, args, data, counts, calls, loaded, seed,
                   history>>
    /\ UNCHANGED others

\* leaving the with block releases the lock; the caller sees the outcome
Exit(t) ==
    /\ pc[t] = "exit"
    /\ lock' = IF lock = t THEN NoThread ELSE lock
    /\ pc' = [pc EXCEPT ![t] = "idle"]
    /\ args' = [args EXCEPT ![t] = NoArgs]
    /\ data' = [data EXCEPT ![t] = NoData]
    /\ loaded' = [loaded EXCEPT ![t] = NoData]
    /\ counts' = [counts EXCEPT ![t] = NoCounts]
    /\ result' = [result EXCEPT ![t] = NoResult]
    /\ UNCHANGED <<clock, file, calls, seed, history>>
    /\ UNCHANGED others

Next ==
    \/ Tick
    \/ \E t \in Threads : Call(t)
    \/ \E t \in Threads : StatusCall(t)
    \/ \E t \in Threads : Acquire(t)
    \/ \E t \in Threads : CheckUser(t)
    \/ \E t \in Threads : CheckPR(t)
    \/ \E t \in Threads : CheckRepo(t)
    \/ \E t \in Threads : Record(t)
    \/ \E t \in Threads : CleanupSave(t)
    \/ \E t \in Threads : GetStatus(t)
    \/ \E t \in Threads : Exit(t)

Spec == Init /\ [][Next]_vars

\* ------------------------------------------ the store file under failures
\* The calls of one process with the writes of the store taken apart: a
\* write can fail with an exception, and the process can die between any
\* two statements and be started again on the files it left behind.
Worker == 1

FaultInit ==
    /\ clock = StartClock
    /\ file \in {NoFile} \cup SeedStores
    /\ seed = file
    /\ history = <<>>
    /\ lock = NoThread
    /\ pc = [t \in Threads |-> IF t = Worker THEN "down" ELSE "idle"]
    /\ args = [t \in Threads |-> NoArgs]
    /\ data = [t \in Threads |-> NoData]
    /\ loaded = [t \in Threads |-> NoData]
    /\ counts = [t \in Threads |-> NoCounts]
    /\ result = [t \in Threads |-> NoResult]
    /\ calls = 0
    /\ tmp = NoFile
    /\ PipelinesIdle

\* RateLimiter.__init__: "if not self.data_file.exists(): self._initialize_file()"
Start(t) ==
    /\ pc[t] = "down"
    /\ pc' = [pc EXCEPT ![t] = IF file = NoFile THEN "ctor_open" ELSE "idle"]
    /\ UNCHANGED <<clock, file, lock, args, data, counts, result, calls,
                   loaded, seed, history, tmp, pipeline_vars>>

\* _initialize_file: open(self.data_file, "w") creates the file or truncates
\* it; until json.dump is through, the data file holds incomplete text
init_open(f) == Partial

InitOpen(t) ==
    /\ pc[t] \in {"ctor_open", "load_open"}
    /\ file' = init_open(file)
    /\ pc' = [pc EXCEPT ![t] = IF pc[t] = "ctor_open" THEN "ctor_dump"
                                                      ELSE "load_dump"]
    /\ UNCHANGED <<clock, lock, args, data, counts, result, calls,
                   loaded, seed, history, tmp, pipeline_vars>>

\* _initialize_file: json.dump(initial_data, f) completes the text
InitDump(t) ==
    /\ pc[t] \in {"ctor_dump", "load_dump"}
    /\ file' = initial_data(clock)
    /\ pc' = [pc EXCEPT ![t] = IF pc[t] = "ctor_dump" THEN "idle" ELSE "reload"]
    /\ UNCHANGED <<clock, lock, args, data, counts, result, calls,
                   loaded, seed, history, tmp, pipeline_vars>>

\* mutant: no recovery, the call fails on a file it cannot read
LoadInvalid_raises(t) ==
    /\ pc[t] = "lock"
    /\ lock_free(t)
    /\ ~is_store(file)
    /\ result' = [result EXCEPT ![t] = [outcome |-> "raised"]]
    /\ pc' = [pc EXCEPT ![t] = "exit"]
    /\ UNCHANGED <<clock, file, lock, args, data, counts, calls,
                   loaded, seed, history, tmp, pipeline_vars>>

\* with self._lock: _load_data finds no file, text that is not JSON, or JSON
\* without "limits": it calls self._initialize_file()
LoadInvalid(t) ==
    /\ pc[t] = "lock"
    /\ lock_free(t)
    /\ ~is_store(file)
    /\ lock' = t
    /\ pc' = [pc EXCEPT ![t] = "load_open"]
    /\ UNCHANGED <<clock, file, args, data, counts, result, calls,
                   loaded, seed, history, tmp, pipeline_vars>>

\* _load_data: "return self._load_data()" after the file was initialised
Reload(t) ==
    /\ pc[t] = "reload"
    /\ is_store(file)
    /\ data' = [data EXCEPT ![t] = file]
    /\ loaded' = [loaded EXCEPT ![t] = file]
    /\ pc' = [pc EXCEPT ![t] = IF args[t].command = NoCommand
                                THEN "status" ELSE "check_user"]
    /\ UNCHANGED <<clock, file, lock, args, counts, result, calls,
                   seed, history, tmp, pipeline_vars>>

\* _save_data: "except Exception as e: logger.error(...)": the exception is
\* logged and check_and_record returns None as after a write that worked
save_failed == Returned

\* check_and_record returns None: the caller takes the call as admitted
Return(t, outcome) ==
    /\ result' = [result EXCEPT ![t] = outcome]
    /\ pc' = [pc EXCEPT ![t] = "exit"]
    /\ history' = IF outcome = Returned
                  THEN Append(history,
                         [user |-> args[t].user, repo |-> args[t].repo,
                          pr_number |-> args[t].pr_number,
                          command |-> args[t].command,
                          timestamp |-> recorded_timestamp(t)])
                  ELSE history

\* the cleanup check, then _save_data: open(temp_file, "w")
SaveOpen(t) ==
    /\ pc[t] = "cleanup"
    /\ data' = [data EXCEPT ![t] = cleanup_if_due(data[t], clock)]
    /\ \/ /\ tmp' = Partial
          /\ pc' = [pc EXCEPT ![t] = "save_dump"]
          /\ UNCHANGED <<result, history>>
       \/ /\ tmp' = tmp
          /\ Return(t, save_failed)
    /\ UNCHANGED <<clock, file, lock, args, counts, calls, loaded, seed,
                   pipeline_vars>>

\* _save_data: json.dump(data, f) into the temporary file
SaveDump(t) ==
    /\ pc[t] = "save_dump"
    /\ \/ /\ tmp' = data[t]
          /\ pc' = [pc EXCEPT ![t] = "save_replace"]
          /\ UNCHANGED <<result, history>>
       \/ /\ tmp' = tmp
          /\ Return(t, save_failed)
    /\ UNCHANGED <<clock, file, lock, args, data, counts, calls, loaded, seed,
                   pipeline_vars>>

\* _save_data: temp_file.replace(self.data_file)
SaveReplace(t) ==
    /\ pc[t] = "save_replace"
    /\ \/ /\ file' = tmp
          /\ tmp' = NoFile
          /\ Return(t, Returned)
       \/ /\ UNCHANGED <<file, tmp>>
          /\ Return(t, save_failed)
    /\ UNCHANGED <<clock, lock, args, data, counts, calls, loaded, seed,
                   pipeline_vars>>

\* the process dies: its lock and its locals are gone, the files stay
Crash(t) ==
    /\ pc[t] # "down"
    /\ pc' = [pc EXCEPT ![t] = "down"]
    /\ lock' = NoThread
    /\ args' = [args EXCEPT ![t] = NoArgs]
    /\ data' = [data EXCEPT ![t] = NoData]
    /\ loaded' = [loaded EXCEPT ![t] = NoData]
    /\ counts' = [counts EXCEPT ![t] = NoCounts]
    /\ result' = [result EXCEPT ![t] = NoResult]
    /\ UNCHANGED <<clock, file, calls, seed, history, tmp, pipeline_vars>>

FaultNext ==
    \/ Tick
    \/ Start(Worker)
    \/ Call(Worker)
    \/ Acquire(Worker)
    \/ LoadInvalid(Worker)
    \/ InitOpen(Worker)
    \/ InitDump(Worker)
    \/ Reload(Worker)
    \/ CheckUser(Worker)
    \/ CheckPR(Worker)
    \/ CheckRepo(Worker)
    \/ Record(Worker)
    \/ SaveOpen(Worker)
    \/ SaveDump(Worker)
    \/ SaveReplace(Worker)
    \/ Exit(Worker)
    \/ Crash(Worker)

FaultSpec == FaultInit /\ [][FaultNext]_vars

\* ------------------------------------------------ the store file is lost
\* The process is up and between two calls the data file is deleted, cut
\* short or replaced by JSON of another shape (by an operator, a deploy, a
\* full disk); the writes of the process itself succeed.
NoLimits == [other |-> TRUE]

LostInit ==
    /\ clock = StartClock
    /\ file \in SeedStores
    /\ seed = file
    /\ history = <<>>
    /\ lock = NoThread
    /\ pc = [t \in Threads |-> "idle"]
    /\ args = [t \in Threads |-> NoArgs]
    /\ data = [t \in Threads |-> NoData]
    /\ loaded = [t \in Threads |-> NoData]
    /\ counts = [t \in Threads |-> NoCounts]
    /\ result = [t \in Threads |-> NoResult]
    /\ calls = 0
    /\ tmp = NoFile
    /\ PipelinesIdle

\* the data file is lost while no call is under way
Damage ==
    /\ pc[Worker] = "idle"
    /\ is_store(file)
    /\ file' \in {NoFile, Partial, NoLimits}
    /\ UNCHANGED <<clock, lock, pc, args, data, counts, result, calls,
                   loaded, seed, history, tmp, pipeline_vars>>

LostNext ==
    \/ Tick
    \/ Damage
    \/ Call(Worker)
    \/ StatusCall(Worker)
    \/ Acquire(Worker)
    \/ LoadInvalid(Worker)
    \/ InitOpen(Worker)
    \/ InitDump(Worker)
    \/ Reload(Worker)
    \/ CheckUser(Worker)
    \/ CheckPR(Worker)
    \/ CheckRepo(Worker)
    \/ Record(Worker)
    \/ CleanupSave(Worker)
    \/ GetStatus(Worker)
    \/ Exit(Worker)

LostSpec == LostInit /\ [][LostNext]_vars


\* -------------------------------------------------------------- pipelines
\* The five command pipelines: a handler builds the initial State, the graph
\* engine calls the nodes one after the other along the edges, and the
\* handler turns the terminal State into its response.  A list whose
\* elements the pipeline only counts or iterates over is represented by its
\* length; a message is represented by its kind and the values it shows.
Pipelines == {"security_fix", "optimize", "auto_fix", "comprehensive_review",
              "incremental_review"}

\* the outcome of a call to a collaborator: a value, or an exception
Ok(value) == [raised |-> FALSE, value |-> value]
Raised == [raised |-> TRUE]

\* f"... failed: {str(e)}" and str(e): the text of an error
Error(text) == [error |-> text]

\* str(RateLimitExceeded): f"{limit_type} rate limit exceeded: {limit} per {window}"
RateLimitError(e) ==
    [error |-> "rate limit exceeded",
     limit_type |-> e.limit_type, limit |-> e.limit, window |-> e.window]

\* check_and_record as one step of its caller: the outcome and the store the
\* call leaves in the file
check_and_record(d, user, repo, pr_number, command, now) ==
    IF user_limit_hit(count_user_commands(d, user, now))
    THEN [result |-> RateLimitExceeded("User", USER_LIMIT, "hour"), data |-> d]
    ELSE IF pr_limit_hit(count_pr_commands(d, PrKey(repo, pr_number)))
    THEN [result |-> RateLimitExceeded("PR", PR_LIMIT, "total"), data |-> d]
    ELSE IF repo_limit_hit(count_repo_commands(d, repo, now))
    THEN [result |-> RateLimitExceeded("Repository", REPO_LIMIT, "day"),
          data |-> d]
    ELSE [result |-> Returned,
          data |-> cleanup_if_due(
                      record_command(d, user, repo, pr_number, command, now),
                      now)]

\* the "Rate Limit Exceeded" text the wrapper builds from the exception and
\* from get_limits_status
RateLimitMessage(e, user, repo, pr_number, status) ==
    [kind |-> "Rate Limit Exceeded",
     limit_type |-> e.limit_type, limit |-> e.limit, window |-> e.window,
     user |-> user, repo |-> repo, pr_number |-> pr_number,
     status |-> status]

\* rate_limited: what the wrapper does with the State when the limiter has
\* raised e: error and (the key being there) agent_result are set, the
\* wrapped node is not called
rate_limit_rejected(s, e, status) ==
    [s EXCEPT !.error = RateLimitError(e),
              !.agent_result =
                  RateLimitMessage(e, s.command.commenter, s.repo_name,
                                   s.pr_number, status)]

\* ----------------------------------------------- security_fix_workflow.py
create_security_fix_state(repo_name, pr_number, command, pr_data) ==
    [repo_name |-> repo_name,
     pr_number |-> pr_number,
     command |-> command,
     pr_data |-> pr_data,
     security_issues |-> 0,
     scan_complete |-> FALSE,
     proposed_fixes |-> 0,
     fixes_generated |-> FALSE,
     test_branch_name |-> None,
     test_results |-> [status |-> "none"],
     tests_passed |-> FALSE,
     pr_url |-> None,
     pr_created |-> FALSE,
     error |-> None,
     rollback_needed |-> FALSE,
     rollback_complete |-> FALSE,
     current_step |-> "initialized",
     agent_result |-> None]

\* scan: Ok(number of issues found) or Raised
scan_security_issues_node(s, scan) ==
    IF scan.raised
    THEN [s EXCEPT !.error = Error("Security scan failed"),
                   !.scan_complete = FALSE]
    ELSE [s EXCEPT !.security_issues = scan.value,
                   !.scan_complete = TRUE,
                   !.current_step = "scan_complete"]

\* generated: Ok of anything when every generate_fix returned, else Raised
generate_fixes_node(s, generated) ==
    IF generated.raised
    THEN [s EXCEPT !.error = Error("Fix generation failed"),
                   !.fixes_generated = FALSE]
    ELSE [s EXCEPT !.proposed_fixes = s.security_issues,
                   !.fixes_generated = TRUE,
                   !.current_step = "fixes_generated"]

\* f"repoauditor/fix-security-pr-{pr_number}"
BranchName(pr_number) == [branch |-> pr_number]

\* whatever get_pr_details and create_branch do, the inner handler logs it
\* and the node goes on
create_test_branch_node(s, created) ==
    [s EXCEPT !.test_branch_name = BranchName(s.pr_number),
              !.current_step = "branch_created"]

\* the tests are simulated: the result is always "passed"
run_tests_node(s) ==
    LET test_results == [status |-> "passed", passed |-> 45, failed |-> 0]
    IN [s EXCEPT !.test_results = test_results,
                 !.tests_passed = (test_results.status = "passed"),
                 !.current_step = "tests_complete"]

\* html_url of the opened request, the compare URL, the tree URL
PullUrl(repo_name, number) == [url |-> "pull", repo |-> repo_name, number |-> number]
CompareUrl(repo_name, branch) == [url |-> "compare", repo |-> repo_name, branch |-> branch]
TreeUrl(repo_name, branch) == [url |-> "tree", repo |-> repo_name, branch |-> branch]

SecurityFixedMessage(fixes, branch, pr_url, new_pr_number) ==
    [kind |-> "Security Issues Fixed", fixes |-> fixes, branch |-> branch,
     pr_url |-> pr_url, pr_number_new |-> new_pr_number]

\* the number GitHub gives to a request opened for pull request pr_number
NewNumber(pr_number) == pr_number + 1

\* details: get_pr_details returned or raised; opened: create_pull_request
\* returned a response (TRUE) or nothing (FALSE), or raised.  When
\* get_pr_details raises, base_branch is unbound and the inner handler
\* itself raises on it: the outer handler sets error.
create_pr_node(s, details, opened) ==
    IF details.raised
    THEN [s EXCEPT !.error = Error("PR creation failed"),
                   !.pr_created = FALSE]
    ELSE LET pr_url == IF opened.raised
                       THEN CompareUrl(s.repo_name, s.test_branch_name)
                       ELSE IF opened.value
                       THEN PullUrl(s.repo_name, NewNumber(s.pr_number))
                       ELSE TreeUrl(s.repo_name, s.test_branch_name)
             new_pr_number == IF ~opened.raised /\ opened.value
                              THEN NewNumber(s.pr_number) ELSE None
         IN [s EXCEPT !.pr_url = pr_url,
                      !.pr_created = TRUE,
                      !.agent_result =
                          SecurityFixedMessage(s.proposed_fixes,
                                               s.test_branch_name,
                                               pr_url, new_pr_number),
                      !.current_step = "complete"]

RollbackMessage(fixes, failed, branch) ==
    [kind |-> "Security Fix Rollback", fixes |-> fixes, failed |-> failed,
     branch |-> branch]

rollback_changes_node(s) ==
    [s EXCEPT !.rollback_complete = TRUE,
              !.agent_result =
                  RollbackMessage(s.proposed_fixes,
                                  IF "failed" \in DOMAIN s.test_results
                                  THEN s.test_results.failed ELSE 0,
                                  s.test_branch_name),
              !.current_step = "rolled_back"]

NoIssuesMessage == [kind |-> "No Security Issues Found"]

\* mutant: the message of success comes with the error taken off
post_no_issues_node_clears(s) ==
    [s EXCEPT !.agent_result = NoIssuesMessage,
              !.current_step = "complete",
              !.error = None]

post_no_issues_node(s) ==
    [s EXCEPT !.agent_result = NoIssuesMessage,
              !.current_step = "complete"]

\* mutant: the scan result is not looked at, fixes are always generated
check_issues_found_always(s) == "generate_fixes"

check_issues_found(s) ==
    IF s.security_issues > 0 THEN "generate_fixes" ELSE "post_no_issues"

\* mutant: the test result is not looked at, the request is always opened
check_tests_passed_always(s) == "create_pr"

\* mutant: the two labels change places
check_tests_passed_swapped(s) == IF s.tests_passed THEN "rollback" ELSE "create_pr"

check_tests_passed(s) ==
    IF s.tests_passed THEN "create_pr" ELSE "rollback"

\* --------------------------------------------------- optimize_workflow.py
create_optimize_state(repo_name, pr_number, command, pr_data) ==
    [repo_name |-> repo_name,
     pr_number |-> pr_number,
     command |-> command,
     pr_data |-> pr_data,
     primary_language |-> "",
     language_detected |-> FALSE,
     formatter_tool |-> "",
     linter_tool |-> "",
     formatted_files |-> <<>>,
     optimizations_applied |-> FALSE,
     test_output |-> "",
     test_passed |-> FALSE,
     tests_run |-> FALSE,
     original_state_snapshot |-> None,
     snapshot_created |-> FALSE,
     rollback_performed |-> FALSE,
     current_step |-> "initialized",
     error |-> None,
     agent_result |-> None]

\* detected: Ok(the detector's result) or Raised
detect_language_node(s, detected) ==
    IF detected.raised
    THEN [s EXCEPT !.error = Error("detect")]
    ELSE [s EXCEPT !.primary_language = detected.value.language,
                   !.formatter_tool = detected.value.formatter,
                   !.linter_tool = detected.value.linter,
                   !.language_detected = TRUE,
                   !.current_step = "language_detected"]

\* snapshot: Ok of anything when create_snapshot returned, else Raised
apply_optimizations_node(s, snapshot) ==
    IF snapshot.raised
    THEN [s EXCEPT !.error = Error("snapshot")]
    ELSE [s EXCEPT !.original_state_snapshot = [files |-> s.pr_data.files],
                   !.snapshot_created = TRUE,
                   !.optimizations_applied = TRUE,
                   !.formatted_files = s.pr_data.files,
                   !.current_step = "optimized"]

\* the tests are simulated: "Assume tests pass"
optimize_run_tests_node(s) ==
    [s EXCEPT !.test_passed = TRUE,
              !.tests_run = TRUE,
              !.test_output = "All tests passed",
              !.current_step = "tests_complete"]

OptimizedMessage(language, formatter, linter, files) ==
    [kind |-> "Code Optimized", language |-> language,
     formatter |-> formatter, linter |-> linter, files |-> files]

finalize_optimization_node(s) ==
    [s EXCEPT !.agent_result =
                  OptimizedMessage(s.primary_language, s.formatter_tool,
                                   s.linter_tool, Len(s.formatted_files)),
              !.current_step = "complete"]

OptimizationRolledBackMessage == [kind |-> "Optimization Rolled Back"]

rollback_node(s) ==
    [s EXCEPT !.rollback_performed = TRUE,
              !.agent_result = OptimizationRolledBackMessage,
              !.current_step = "rolled_back"]

\* mutant: after the tests the optimizations are applied once more
optimize_check_tests_passed_again(s) ==
    IF s.test_passed THEN "apply_optimizations" ELSE "rollback"

optimize_check_tests_passed(s) ==
    IF s.test_passed THEN "finalize" ELSE "rollback"

\* --------------------------------------------------- auto_fix_workflow.py
create_auto_fix_state(repo_name, pr_number, command, pr_data) ==
    [repo_name |-> repo_name,
     pr_number |-> pr_number,
     command |-> command,
     pr_data |-> pr_data,
     detected_bugs |-> 0,
     bugs_detected |-> FALSE,
     fixes |-> 0,
     fixes_generated |-> FALSE,
     generated_tests |-> 0,
     tests_generated |-> FALSE,
     pr_url |-> None,
     pr_created |-> FALSE,
     current_step |-> "initialized",
     error |-> None,
     agent_result |-> None]

\* detected: Ok(number of bugs) or Raised
detect_bugs_node(s, detected) ==
    IF detected.raised
    THEN [s EXCEPT !.error = Error("detect")]
    ELSE [s EXCEPT !.detected_bugs = detected.value,
                   !.bugs_detected = TRUE,
                   !.current_step = "bugs_detected"]

\* generated: Ok of anything when every generate_fix returned, else Raised
auto_fix_generate_fixes_node(s, generated) ==
    IF generated.raised
    THEN [s EXCEPT !.error = Error("generate_fix")]
    ELSE [s EXCEPT !.fixes = s.detected_bugs,
                   !.fixes_generated = TRUE,
                   !.current_step = "fixes_generated"]

AutoFixMessage(fixes, tests) ==
    [kind |-> "Auto-Fix Complete", fixes |-> fixes, tests |-> tests]

\* generated: Ok(number of tests per fix) or Raised
generate_tests_node(s, generated) ==
    IF generated.raised
    THEN [s EXCEPT !.error = Error("generate_tests")]
    ELSE LET all_tests == s.fixes * generated.value
         IN [s EXCEPT !.generated_tests = all_tests,
                      !.tests_generated = TRUE,
                      !.agent_result = AutoFixMessage(s.fixes, all_tests),
                      !.current_step = "complete"]

\* --------------------------------------- comprehensive_review_workflow.py
create_comprehensive_review_state(repo_name, pr_number, command, pr_data) ==
    [repo_name |-> repo_name,
     pr_number |-> pr_number,
     command |-> command,
     pr_data |-> pr_data,
     security_analysis |-> None,
     performance_analysis |-> None,
     quality_analysis |-> None,
     all_findings |-> 0,
     total_issues |-> 0,
     markdown_report |-> None,
     report_posted |-> FALSE,
     current_step |-> "initialized",
     error |-> None,
     agent_result |-> None]

fetch_pr_diff_node(s) == [s EXCEPT !.current_step = "diff_fetched"]

Analysis(analysis_type, findings) ==
    [analysis_type |-> analysis_type, findings |-> findings, completed |-> TRUE]

\* scan: Ok(number of issues) or Raised; a failed scan is logged and the
\* State is returned as it came
security_scan_node(s, scan) ==
    IF scan.raised THEN s
    ELSE [s EXCEPT !.security_analysis = Analysis("security", scan.value)]

performance_scan_node(s) ==
    [s EXCEPT !.performance_analysis = Analysis("performance", 0)]

quality_scan_node(s) ==
    [s EXCEPT !.quality_analysis = Analysis("quality", 0)]

\* the findings of an analysis that is there
Findings(analysis) == IF analysis = None THEN 0 ELSE analysis.findings

aggregate_findings_node(s) ==
    LET all_findings == Findings(s.security_analysis)
                        + Findings(s.performance_analysis)
                        + Findings(s.quality_analysis)
    IN [s EXCEPT !.all_findings = all_findings,
                 !.total_issues = all_findings,
                 !.current_step = "aggregated"]

\* an exception that leaves the node and the graph
NodeRaised == [node_raised |-> TRUE]

ReportMessage(total, security, performance, quality) ==
    [kind |-> "Comprehensive Review Report", total |-> total,
     security |-> security, performance |-> performance,
     quality |-> quality]

\* state.get("security_analysis", {}) is None when the key holds None, and
\* None has no .get(): the node has no handler and the exception leaves it
generate_report_node(s) ==
    IF s.security_analysis = None \/ s.performance_analysis = None
       \/ s.quality_analysis = None
    THEN NodeRaised
    ELSE LET report == ReportMessage(s.total_issues,
                                     s.security_analysis.findings,
                                     s.performance_analysis.findings,
                                     s.quality_analysis.findings)
         IN [s EXCEPT !.markdown_report = report,
                      !.agent_result = report,
                      !.report_posted = TRUE,
                      !.current_step = "complete"]

\* ----------------------------------------- incremental_review_workflow.py
create_incremental_review_state(repo_name, pr_number, command, pr_data) ==
    [repo_name |-> repo_name,
     pr_number |-> pr_number,
     command |-> command,
     pr_data |-> pr_data,
     all_files |-> <<>>,
     previously_reviewed_files |-> {},
     new_files_to_review |-> <<>>,
     history_loaded |-> FALSE,
     new_findings |-> 0,
     review_complete |-> FALSE,
     tracking_file_path |-> PrKey(repo_name, pr_number),
     history_saved |-> FALSE,
     current_step |-> "initialized",
     error |-> None,
     agent_result |-> None]

\* the record save_history writes: the reviewed files of the PR
ReviewRecord(repo_name, pr_number, files) ==
    [repo_name |-> repo_name, pr_number |-> pr_number,
     reviewed_files |-> {files[i] : i \in 1..Len(files)}]

\* history_file: the record file as the node finds it; a file that is there
\* and is not JSON makes json.load raise
\* mutant: the record is read and its file names are not taken over
load_history_node_forgets(s, history_file) ==
    IF history_file = Partial
    THEN [s EXCEPT !.error = Error("load")]
    ELSE [s EXCEPT !.previously_reviewed_files = {},
                   !.history_loaded = TRUE,
                   !.current_step = "history_loaded"]

load_history_node(s, history_file) ==
    IF history_file = Partial
    THEN [s EXCEPT !.error = Error("load")]
    ELSE [s EXCEPT !.previously_reviewed_files =
                       IF history_file = NoFile THEN {}
                       ELSE history_file.reviewed_files,
                   !.history_loaded = TRUE,
                   !.current_step = "history_loaded"]

identify_new_files_node(s) ==
    LET all_files == s.pr_data.files
        IsNew(f) == f \notin s.previously_reviewed_files
    IN [s EXCEPT !.all_files = all_files,
                 !.new_files_to_review = SelectSeq(all_files, IsNew),
                 !.current_step = "files_identified"]

\* the review is simulated: no findings
review_new_files_node(s) ==
    [s EXCEPT !.new_findings = 0,
              !.review_complete = TRUE,
              !.current_step = "review_complete"]

IncrementalReviewMessage(new, previous, total, findings) ==
    [kind |-> "Incremental Review Complete", new |-> new,
     previous |-> previous, total |-> total, findings |-> findings]

\* written: Ok of anything when the record file was written, else Raised
save_history_node(s, written) ==
    IF written.raised
    THEN [s EXCEPT !.error = Error("save")]
    ELSE [s EXCEPT !.history_saved = TRUE,
                   !.agent_result =
                       IncrementalReviewMessage(
                           Len(s.new_files_to_review),
                           Cardinality(s.previously_reviewed_files),
                           Len(s.all_files), s.new_findings),
                   !.current_step = "complete"]

NoNewFilesMessage == [kind |-> "No New Files to Review"]

post_no_new_files_node(s) ==
    [s EXCEPT !.agent_result = NoNewFilesMessage,
              !.current_step = "complete"]

\* mutant: the label depends on the time of the call
check_has_new_files_by_clock(s) ==
    IF Len(s.new_files_to_review) > 0 /\ clock % 2 = 0
    THEN "review_new" ELSE "post_no_new"

check_has_new_files(s) ==
    IF Len(s.new_files_to_review) > 0 THEN "review_new" ELSE "post_no_new"

\* ------------------------------------------------------- the graph engine
\* bound: the largest number of issues a scan reports
MaxIssues == 2

\* bound: the number of commands the handlers take
MaxRuns == 1

\* the lists of changed files a pull request can have
ChangedFiles == {<<>>, <<"a">>, <<"a", "b">>}

\* context.command of the handler of pipeline p
CommandOf(p, commenter) == [name |-> p, commenter |-> commenter]

\* create_*_state as the handler of pipeline p calls it
create_state(p, repo_name, pr_number, command, pr_data) ==
    CASE p = "security_fix" ->
           create_security_fix_state(repo_name, pr_number, command, pr_data)
      [] p = "optimize" ->
           create_optimize_state(repo_name, pr_number, command, pr_data)
      [] p = "auto_fix" ->
           create_auto_fix_state(repo_name, pr_number, command, pr_data)
      [] p = "comprehensive_review" ->
           create_comprehensive_review_state(repo_name, pr_number, command,
                                             pr_data)
      [] p = "incremental_review" ->
           create_incremental_review_state(repo_name, pr_number, command,
                                           pr_data)

\* workflow.set_entry_point(...): the node that carries @rate_limited
entry_point(p) ==
    CASE p = "security_fix" -> "scan_security"
      [] p = "optimize" -> "detect_language"
      [] p = "auto_fix" -> "detect_bugs"
      [] p = "comprehensive_review" -> "fetch_diff"
      [] p = "incremental_review" -> "load_history"

\* mutant: a gate after detect_bugs: a run with an error or without bugs
\* ends there
auto_fix_edges_gated(n, s) ==
    CASE n = "detect_bugs" ->
           IF s.error # None \/ s.detected_bugs = 0 THEN "END"
           ELSE "generate_fixes"
      [] n = "generate_fixes" -> "generate_tests"
      [] OTHER -> "END"

\* the edges of the auto-fix graph: add_edge only, the State s the node
\* returned plays no part
auto_fix_edges(n, s) ==
    CASE n = "detect_bugs" -> "generate_fixes"
      [] n = "generate_fixes" -> "generate_tests"
      [] OTHER -> "END"

\* workflow.add_edge / add_conditional_edges: the node after node n, chosen
\* from the State s that n returned
next_node(p, n, s) ==
    CASE p = "security_fix" ->
           (CASE n = "scan_security" -> check_issues_found(s)
              [] n = "generate_fixes" -> "create_branch"
              [] n = "create_branch" -> "run_tests"
              [] n = "run_tests" -> check_tests_passed(s)
              [] OTHER -> "END")
      [] p = "optimize" ->
           (CASE n = "detect_language" -> "apply_optimizations"
              [] n = "apply_optimizations" -> "run_tests"
              [] n = "run_tests" -> optimize_check_tests_passed(s)
              [] OTHER -> "END")
      [] p = "auto_fix" -> auto_fix_edges(n, s)
      [] p = "comprehensive_review" ->
           (CASE n = "fetch_diff" -> "security_scan"
              [] n = "security_scan" -> "performance_scan"
              [] n = "performance_scan" -> "quality_scan"
              [] n = "quality_scan" -> "aggregate_findings"
              [] n = "aggregate_findings" -> "generate_report"
              [] OTHER -> "END")
      [] p = "incremental_review" ->
           (CASE n = "load_history" -> "identify_new"
              [] n = "identify_new" -> check_has_new_files(s)
              [] n = "review_new" -> "save_history"
              [] OTHER -> "END")

\* what the collaborators node n calls can answer
Answers == {Ok(TRUE), Raised}

outcomes(p, n) ==
    CASE p = "security_fix" /\ n = "scan_security" ->
           {Ok(k) : k \in 0..MaxIssues} \cup {Raised}
      [] p = "security_fix" /\ n = "create_pr" ->
           Answers \X {Ok(TRUE), Ok(FALSE), Raised}
      [] p = "optimize" /\ n = "detect_language" ->
           {Ok([language |-> "python", formatter |-> "black",
                linter |-> "ruff"]), Raised}
      [] p = "auto_fix" /\ n = "detect_bugs" ->
           {Ok(k) : k \in 0..MaxIssues} \cup {Raised}
      [] p = "auto_fix" /\ n = "generate_tests" -> {Ok(1), Raised}
      [] p = "comprehensive_review" /\ n = "security_scan" ->
           {Ok(k) : k \in 0..MaxIssues} \cup {Raised}
      [] n \in {"generate_fixes", "create_branch", "apply_optimizations",
                "save_history"} -> Answers
      [] OTHER -> {Ok(TRUE)}

\* the body of node n of pipeline p on State s; o is the answer of its
\* collaborators and history_file the record file of the pull request
run_node(p, n, s, o, history_file) ==
    CASE p = "security_fix" ->
           (CASE n = "scan_security" -> scan_security_issues_node(s, o)
              [] n = "generate_fixes" -> generate_fixes_node(s, o)
              [] n = "create_branch" -> create_test_branch_node(s, o)
              [] n = "run_tests" -> run_tests_node(s)
              [] n = "create_pr" -> create_pr_node(s, o[1], o[2])
              [] n = "rollback" -> rollback_changes_node(s)
              [] n = "post_no_issues" -> post_no_issues_node(s))
      [] p = "optimize" ->
           (CASE n = "detect_language" -> detect_language_node(s, o)
              [] n = "apply_optimizations" -> apply_optimizations_node(s, o)
              [] n = "run_tests" -> optimize_run_tests_node(s)
              [] n = "finalize" -> finalize_optimization_node(s)
              [] n = "rollback" -> rollback_node(s))
      [] p = "auto_fix" ->
           (CASE n = "detect_bugs" -> detect_bugs_node(s, o)
              [] n = "generate_fixes" -> auto_fix_generate_fixes_node(s, o)
              [] n = "generate_tests" -> generate_tests_node(s, o))
      [] p = "comprehensive_review" ->
           (CASE n = "fetch_diff" -> fetch_pr_diff_node(s)
              [] n = "security_scan" -> security_scan_node(s, o)
              [] n = "performance_scan" -> performance_scan_node(s)
              [] n = "quality_scan" -> quality_scan_node(s)
              [] n = "aggregate_findings" -> aggregate_findings_node(s)
              [] n = "generate_report" -> generate_report_node(s))
      [] p = "incremental_review" ->
           (CASE n = "load_history" -> load_history_node(s, history_file)
              [] n = "identify_new" -> identify_new_files_node(s)
              [] n = "review_new" -> review_new_files_node(s)
              [] n = "save_history" -> save_history_node(s, o)
              [] n = "post_no_new" -> post_no_new_files_node(s))

\* the record files of the pull requests an earlier run can have left
SeedTracking ==
    {[k \in PrKeys |-> IF k = PrKey("r1", 7) THEN f ELSE NoFile] :
        f \in {NoFile, Partial, ReviewRecord("r1", 7, <<"a">>)}}

\* the store and the record files as earlier commands left them, before
\* run number runs + 1 of the session
PipelineStart(runs) ==
    /\ clock = StartClock
    /\ file \in SeedStores
    /\ seed = file
    /\ history = <<>>
    /\ lock = NoThread
    /\ pc = [t \in Threads |-> "idle"]
    /\ args = [t \in Threads |-> NoArgs]
    /\ data = [t \in Threads |-> NoData]
    /\ loaded = [t \in Threads |-> NoData]
    /\ counts = [t \in Threads |-> NoCounts]
    /\ result = [t \in Threads |-> NoResult]
    /\ calls = runs
    /\ tmp = NoFile
    /\ pipeline = "none"
    /\ node = "idle"
    /\ state = None
    /\ trace = <<>>
    /\ effects = {}
    /\ response = None
    /\ tracking \in SeedTracking
    /\ decisions = {}

PipelineInit == PipelineStart(0)

\* create_error_response(e): "Command Failed" and the text of the exception
ErrorResponse ==
    [success |-> FALSE, message |-> [kind |-> "Command Failed"]]

\* *Handler.handle up to ainvoke: get_pr_details, then the initial State; an
\* exception of get_pr_details goes to the handler's except clause
Handle ==
    /\ node = "idle"
    /\ calls < MaxRuns
    /\ calls' = calls + 1
    /\ \E p \in Pipelines, commenter \in Users, repo_name \in Repos,
          pr_number \in PRNumbers, files \in ChangedFiles,
          pr_details \in Answers :
          /\ pipeline' = p
          /\ trace' = <<>>
          /\ effects' = {}
          /\ IF pr_details.raised
             THEN /\ node' = "idle"
                  /\ state' = None
                  /\ response' = ErrorResponse
             ELSE /\ node' = entry_point(p)
                  /\ state' = create_state(p, repo_name, pr_number,
                                           CommandOf(p, commenter),
                                           [files |-> files])
                  /\ response' = None
    /\ UNCHANGED <<clock, file, lock, pc, args, data, counts, result,
                   loaded, seed, history, tmp, tracking, decisions>>

\* the side effects of the body of node n that returned State s
effects_of(p, n, s) ==
    IF p = "incremental_review" /\ n = "save_history" /\ s.history_saved
    THEN {"history_written"}
    ELSE IF p = "security_fix" /\ n = "create_pr" /\ s.pr_created
    THEN {"request_opened"}
    ELSE {}

\* an entry of the trace: the node the engine called, whether its body ran,
\* whether the State it returned has error set, and the State object the
\* engine passed in, as it is after the call
Called(n, ran, s, passed) ==
    [node |-> n, ran |-> ran, error |-> s # NodeRaised /\ s.error # None,
     passed |-> passed]

\* the engine calls the current node.  The entry node is wrapped by
\* rate_limited: check_and_record first, and on RateLimitExceeded the State
\* gets error and agent_result and the body is not called.  The wrapper
\* assigns to the keys of the dict it was passed and returns that dict; the
\* nodes build their result with {**state, ...} and leave the dict alone.
Step ==
    /\ node \notin {"idle", "END", "raised", "edge", "routed"}
    /\ LET limited == node = entry_point(pipeline)
           checked == check_and_record(file, state.command.commenter,
                                       state.repo_name, state.pr_number,
                                       state.command.name, clock)
           rejected == limited /\ checked.result # Returned
           key == PrKey(state.repo_name, state.pr_number)
       IN /\ file' = IF limited THEN checked.data ELSE file
          /\ IF rejected
             THEN /\ state' = rate_limit_rejected(
                                 state, checked.result,
                                 limits_status(file, state.command.commenter,
                                               state.repo_name,
                                               state.pr_number,
                                               clock, clock, clock, clock))
                  /\ node' = next_node(pipeline, node, state')
                  /\ trace' = Append(trace, Called(node, FALSE, state', state'))
                  /\ UNCHANGED <<effects, tracking>>
             ELSE \E o \in outcomes(pipeline, node) :
                    LET s == run_node(pipeline, node, state, o, tracking[key])
                    IN /\ trace' = Append(trace, Called(node, TRUE, s, state))
                       /\ IF s = NodeRaised
                          THEN /\ node' = "raised"
                               /\ UNCHANGED <<state, effects, tracking>>
                          ELSE /\ state' = s
                               /\ node' = next_node(pipeline, node, s)
                               /\ effects' = effects \cup
                                             effects_of(pipeline, node, s)
                               /\ tracking' =
                                    IF "history_written"
                                         \in effects_of(pipeline, node, s)
                                    THEN [tracking EXCEPT ![key] =
                                            ReviewRecord(s.repo_name,
                                                         s.pr_number,
                                                         s.all_files)]
                                    ELSE tracking
    /\ UNCHANGED <<clock, lock, pc, args, data, counts, result, calls,
                   loaded, seed, history, tmp, pipeline, response,
                   decisions>>

\* *Handler.handle after ainvoke: the response from the terminal State, or
\* the except clause when ainvoke raised
Respond ==
    /\ node \in {"END", "raised"}
    /\ response' = IF node = "raised" THEN ErrorResponse
                   ELSE [success |-> state.error = None,
                         message |-> state.agent_result]
    /\ node' = "idle"
    /\ UNCHANGED <<clock, file, lock, pc, args, data, counts, result, calls,
                   loaded, seed, history, tmp, pipeline, state, trace,
                   effects, tracking, decisions>>

\* a run is short against a tick of the clock: the clock stands still
PipelineNext == Handle \/ Step \/ Respond

PipelineSpec == PipelineInit /\ [][PipelineNext]_vars

\* ainvoke goes on as long as there is a node to call: a node that has
\* returned is followed by the next one, and the handler answers when the
\* run has ended.  The behaviours are those of the last run of a session,
\* the store and the record files holding what the earlier ones left.
PipelineFairSpec ==
    /\ PipelineStart(MaxRuns - 1)
    /\ [][PipelineNext]_vars
    /\ WF_vars(Step)
    /\ WF_vars(Respond)

\* ------------------------------------------------- the conditional edges
\* the graphs with a conditional edge: three of the pipelines and the
\* code-review graph
RoutedGraphs ==
    {"security_fix", "optimize", "incremental_review", "code_review"}

\* the nodes add_conditional_edges is called for
conditional_edges(p) ==
    CASE p = "security_fix" -> {"scan_security", "run_tests"}
      [] p = "optimize" -> {"run_tests"}
      [] p = "incremental_review" -> {"identify_new"}
      [] p = "code_review" -> {"fetch_pr", "check_critical"}
      [] OTHER -> {}

\* should_request_approval: metadata.get("requires_approval", False)
should_request_approval(s) ==
    IF "requires_approval" \in DOMAIN s.metadata
       /\ s.metadata.requires_approval = TRUE
    THEN "request_approval" ELSE "end"

\* mutant: a State with error gets a label the edge does not declare
should_skip_review_failed(s) ==
    IF s.error # None THEN "failed"
    ELSE IF s.pr_data.diff = "" \/ Len(s.pr_data.files) = 0 THEN "end"
    ELSE "review_code"

\* mutant: the file list is not looked at
should_skip_review_files_unseen(s) == IF s.error # None \/ s.pr_data.diff = "" THEN "end" ELSE "review_code"

\* should_skip_review: an error, an empty diff or an empty file list skips
should_skip_review(s) ==
    IF s.error # None THEN "end"
    ELSE IF s.pr_data.diff = "" THEN "end"
    ELSE IF Len(s.pr_data.files) = 0 THEN "end"
    ELSE "review_code"

\* the routing function of the conditional edge after node n
route(p, n, s) ==
    CASE p = "security_fix" /\ n = "scan_security" -> check_issues_found(s)
      [] p = "security_fix" /\ n = "run_tests" -> check_tests_passed(s)
      [] p = "optimize" /\ n = "run_tests" -> optimize_check_tests_passed(s)
      [] p = "incremental_review" /\ n = "identify_new" ->
           check_has_new_files(s)
      [] p = "code_review" /\ n = "fetch_pr" -> should_skip_review(s)
      [] p = "code_review" /\ n = "check_critical" ->
           should_request_approval(s)

\* the third argument of add_conditional_edges: label -> node
path_map(p, n) ==
    CASE p = "security_fix" /\ n = "scan_security" ->
           [l \in {"generate_fixes", "post_no_issues"} |-> l]
      [] p = "security_fix" /\ n = "run_tests" ->
           [l \in {"create_pr", "rollback"} |-> l]
      [] p = "optimize" /\ n = "run_tests" ->
           [l \in {"finalize", "rollback"} |-> l]
      [] p = "incremental_review" /\ n = "identify_new" ->
           [l \in {"review_new", "post_no_new"} |-> l]
      [] p = "code_review" /\ n = "fetch_pr" ->
           [l \in {"review_code", "end"} |-> l]
      [] p = "code_review" /\ n = "check_critical" ->
           [l \in {"request_approval", "end"} |-> l]

\* run_tests_node with the literal result replaced by test_results
run_tests_reported(s, test_results) ==
    [s EXCEPT !.test_results = test_results,
              !.tests_passed = (test_results.status = "passed"),
              !.current_step = "tests_complete"]

\* the results of a test run: all passed, some failed
TestResults ==
    {[status |-> "passed", passed |-> 45, failed |-> 0],
     [status |-> "failed", passed |-> 40, failed |-> 5]}

\* the State with error set or not
WithError(s, failed, text) ==
    IF failed THEN [s EXCEPT !.error = Error(text)] ELSE s

\* create_initial_workflow_state: the State of the code-review graph; the
\* telemetry starts at zero and both timestamps are the time of creation
create_initial_workflow_state(repo_name, pr_number, diff, files, now) ==
    [pr_data |-> [repo_name |-> repo_name, pr_number |-> pr_number,
                  diff |-> diff, files |-> files],
     review_results |-> <<>>,
     current_step |-> "initialized",
     error |-> None,
     metadata |-> [created_at |-> now,
                   updated_at |-> now,
                   total_cost_usd |-> 0,
                   total_tokens |-> 0,
                   model_calls |-> 0]]

\* the States a conditional edge can be handed: every value of the fields
\* its routing function reads, with error set and unset, the other fields as
\* the nodes before the edge leave them
EdgeStates(p, n) ==
    LET command == CommandOf(p, "u1")
        pr_data(files) == [files |-> files]
        security == create_security_fix_state("r1", 7, command,
                                              pr_data(<<"a">>))
        optimize == create_optimize_state("r1", 7, command, pr_data(<<"a">>))
    IN CASE p = "security_fix" /\ n = "scan_security" ->
              {WithError(scan_security_issues_node(security, scan),
                         failed, "Security scan failed") :
                 scan \in {Ok(k) : k \in 0..MaxIssues} \cup {Raised},
                 failed \in BOOLEAN}
         [] p = "security_fix" /\ n = "run_tests" ->
              {WithError(
                  run_tests_reported(
                      create_test_branch_node(
                          generate_fixes_node(
                              scan_security_issues_node(security, Ok(k)),
                              generated),
                          Ok(TRUE)),
                      test_results),
                  failed, "Fix generation failed") :
                 k \in 1..MaxIssues, generated \in Answers,
                 test_results \in TestResults, failed \in BOOLEAN}
              \cup
              {[create_test_branch_node(
                   scan_security_issues_node(security, Ok(k)), Ok(TRUE))
                  EXCEPT !.error = Error("Test execution failed"),
                         !.tests_passed = FALSE] : k \in 1..MaxIssues}
         [] p = "optimize" /\ n = "run_tests" ->
              {[WithError(apply_optimizations_node(optimize, snapshot),
                          failed, "detect")
                  EXCEPT !.test_passed = passed,
                         !.tests_run = TRUE,
                         !.current_step = "tests_complete"] :
                 snapshot \in Answers, failed \in BOOLEAN,
                 passed \in BOOLEAN}
         [] p = "incremental_review" /\ n = "identify_new" ->
              {WithError(
                  identify_new_files_node(
                      load_history_node(
                          create_incremental_review_state(
                              "r1", 7, command, pr_data(files)),
                          history_file)),
                  failed, "load") :
                 files \in ChangedFiles,
                 history_file \in {NoFile, Partial,
                                   ReviewRecord("r1", 7, <<"a">>)},
                 failed \in BOOLEAN}
         [] p = "code_review" /\ n = "fetch_pr" ->
              {WithError(
                  create_initial_workflow_state("r1", 7, diff, files,
                                                StartClock),
                  failed, "Failed to fetch PR details") :
                 diff \in {"", "diff"}, files \in ChangedFiles,
                 failed \in BOOLEAN}
         [] p = "code_review" /\ n = "check_critical" ->
              LET s == create_initial_workflow_state("r1", 7, "diff",
                                                     <<"a">>, StartClock)
              IN {WithError(s, failed, "Critical check failed") :
                    failed \in BOOLEAN}
                 \cup
                 {[s EXCEPT !.metadata =
                       [k \in DOMAIN s.metadata \cup {"requires_approval"}
                          |-> IF k = "requires_approval" THEN required
                              ELSE s.metadata[k]]] :
                    required \in BOOLEAN}

\* the run is at the conditional edge after node n, n having returned s
EdgeInit ==
    /\ clock = StartClock
    /\ file = initial_data(StartClock)
    /\ seed = file
    /\ history = <<>>
    /\ lock = NoThread
    /\ pc = [t \in Threads |-> "idle"]
    /\ args = [t \in Threads |-> NoArgs]
    /\ data = [t \in Threads |-> NoData]
    /\ loaded = [t \in Threads |-> NoData]
    /\ counts = [t \in Threads |-> NoCounts]
    /\ result = [t \in Threads |-> NoResult]
    /\ calls = 0
    /\ tmp = NoFile
    /\ pipeline \in RoutedGraphs
    /\ node = "edge"
    /\ \E n \in conditional_edges(pipeline) :
          /\ state \in EdgeStates(pipeline, n)
          /\ trace = <<Called(n, TRUE, state, state)>>
    /\ effects = {}
    /\ response = None
    /\ tracking \in SeedTracking
    /\ decisions = {}

\* the node the run stands behind
LastNode == trace[Len(trace)].node

\* the engine calls the routing function of the edge; it can be called again
\* for the same State
Route ==
    /\ node \in {"edge", "routed"}
    /\ node' = "routed"
    /\ decisions' = decisions \cup
                    {[node |-> LastNode, state |-> state, at |-> clock,
                      label |-> route(pipeline, LastNode, state)]}
    /\ UNCHANGED <<clock, file, lock, pc, args, data, counts, result, calls,
                   loaded, seed, history, tmp, pipeline, state, trace,
                   effects, response, tracking>>

\* the engine looks the label up in the table of the edge and goes to the
\* node it finds; a label that is not in the table ends the run with an
\* exception.  The nodes of the code-review graph are outside this
\* specification: such a run is followed up to the edge.
Follow ==
    /\ node = "routed"
    /\ \E d \in decisions :
          /\ d.state = state
          /\ d.node = LastNode
          /\ node' = IF d.label \notin DOMAIN path_map(pipeline, LastNode)
                     THEN "raised"
                     ELSE IF pipeline \in Pipelines
                     THEN path_map(pipeline, LastNode)[d.label]
                     ELSE "idle"
    /\ UNCHANGED <<clock, file, lock, pc, args, data, counts, result, calls,
                   loaded, seed, history, tmp, pipeline, state, trace,
                   effects, response, tracking, decisions>>

EdgeNext == Tick \/ Route \/ Follow \/ Step \/ Respond

EdgeSpec == EdgeInit /\ [][EdgeNext]_vars

\* ---------------------------------------------- state.py: update functions
\* dict.get(key, default)
Get(d, k, default) == IF k \in DOMAIN d THEN d[k] ELSE default

\* dict.update(other): the keys of other are added or overwritten
Merge(d, other) ==
    [k \in DOMAIN d \cup DOMAIN other |->
        IF k \in DOMAIN other THEN other[k] ELSE d[k]]

\* mutant: a keyword that is not a key of the State is added to it
update_state_adds(s, kwargs, now) ==
    LET new_state == IF "metadata" \in DOMAIN s
                     THEN [s EXCEPT !.metadata = Put(@, "updated_at", now)]
                     ELSE s
    IN Merge(new_state, kwargs)

\* update_state(state, **kwargs): a deep copy whose metadata.updated_at is
\* the time of the call and whose existing keys named in kwargs are replaced
update_state(s, kwargs, now) ==
    LET new_state == IF "metadata" \in DOMAIN s
                     THEN [s EXCEPT !.metadata = Put(@, "updated_at", now)]
                     ELSE s
    IN [k \in DOMAIN new_state |->
           IF k \in DOMAIN kwargs THEN kwargs[k] ELSE new_state[k]]

add_review_finding(s, finding, now) ==
    update_state(s, [review_results |-> Append(s.review_results, finding)],
                 now)

set_error(s, error_message, now) ==
    update_state(s, [error |-> error_message, current_step |-> "failed"],
                 now)

\* mutant: the metadata is replaced by the values of the call
update_metadata_replace(s, cost_usd, tokens, model_call, extra_metadata, now) ==
    update_state(s, [metadata |->
                        Put(Merge([total_cost_usd |-> cost_usd,
                                   total_tokens |-> tokens,
                                   model_calls |-> IF model_call THEN 1 ELSE 0],
                                  extra_metadata),
                            "updated_at", now)],
                 now)

update_metadata(s, cost_usd, tokens, model_call, extra_metadata, now) ==
    LET copied == s.metadata
        costed == Put(copied, "total_cost_usd",
                      Get(copied, "total_cost_usd", 0) + cost_usd)
        counted == Put(costed, "total_tokens",
                       Get(costed, "total_tokens", 0) + tokens)
        called == IF model_call
                  THEN Put(counted, "model_calls",
                           Get(counted, "model_calls", 0) + 1)
                  ELSE counted
        current_metadata == Put(Merge(called, extra_metadata),
                                "updated_at", now)
    IN update_state(s, [metadata |-> current_metadata], now)

\* bound: the number of calls of update functions on one State
MaxUpdates == 2

\* bound: the largest tokens argument of a call
MaxTokens == 1

\* the cost_usd arguments, in thousandths of a dollar
Costs == {0, 3}

\* the **extra_metadata of a call: none, a field of its own as
\* review_code_node passes it, and a keyword that is the name of a counter
Extras == {EmptyDict, [model_name |-> "flash"], [total_tokens |-> 0]}

\* the **kwargs of a call of update_state: a step label, an unknown key,
\* and the metadata merged with a field as start_node passes it
Kwargs(s, now) ==
    {[current_step |-> "reviewing_code"],
     [unknown |-> TRUE],
     [metadata |-> Merge(s.metadata, [workflow_started_at |-> now])]}

UpdateInit ==
    /\ clock = StartClock
    /\ file = initial_data(StartClock)
    /\ seed = file
    /\ history = <<>>
    /\ lock = NoThread
    /\ pc = [t \in Threads |-> "idle"]
    /\ args = [t \in Threads |-> NoArgs]
    /\ data = [t \in Threads |-> NoData]
    /\ loaded = [t \in Threads |-> NoData]
    /\ counts = [t \in Threads |-> NoCounts]
    /\ result = [t \in Threads |-> NoResult]
    /\ calls = 0
    /\ tmp = NoFile
    /\ pipeline = "code_review"
    /\ node = "idle"
    /\ state = create_initial_workflow_state("r1", 7, "diff", <<"a">>,
                                             StartClock)
    /\ trace = <<>>
    /\ effects = {}
    /\ response = None
    /\ tracking = NoFile
    /\ decisions = {}

\* a call of an update function is logged with the State object that was
\* passed in, as it is after the call (the functions work on a copy)
Logged(call) == Append(trace, call @@ [passed |-> state, now |-> clock])

\* the State an update function returns becomes the State of the caller
UpdateFrame ==
    /\ calls' = calls + 1
    /\ UNCHANGED <<clock, file, lock, pc, args, data, counts, result,
                   loaded, seed, history, tmp, pipeline, node, effects,
                   response, tracking, decisions>>

UpdateState ==
    /\ calls < MaxUpdates
    /\ \E kwargs \in Kwargs(state, clock) :
          /\ state' = update_state(state, kwargs, clock)
          /\ trace' = Logged([call |-> "update_state", kwargs |-> kwargs])
    /\ UpdateFrame

AddReviewFinding ==
    /\ calls < MaxUpdates
    /\ \E severity \in {"HIGH", "LOW"} :
          state' = add_review_finding(state, [severity |-> severity], clock)
    /\ trace' = Logged([call |-> "add_review_finding"])
    /\ UpdateFrame

SetError ==
    /\ calls < MaxUpdates
    /\ state' = set_error(state, Error("Code review failed"), clock)
    /\ trace' = Logged([call |-> "set_error"])
    /\ UpdateFrame

UpdateMetadata ==
    /\ calls < MaxUpdates
    /\ \E cost_usd \in Costs, tokens \in 0..MaxTokens, model_call \in BOOLEAN,
          extra_metadata \in Extras :
          /\ state' = update_metadata(state, cost_usd, tokens, model_call,
                                      extra_metadata, clock)
          /\ trace' = Logged([call |-> "update_metadata",
                              cost_usd |-> cost_usd, tokens |-> tokens,
                              model_call |-> model_call,
                              extra_metadata |-> extra_metadata])
    /\ UpdateFrame

UpdateNext ==
    Tick \/ UpdateState \/ AddReviewFinding \/ SetError \/ UpdateMetadata

UpdateSpec == UpdateInit /\ [][UpdateNext]_vars


\* ------------------------------------------------------- claim vocabulary
Admitted(t) == pc[t] = "exit" /\ result[t].outcome = "returned"
Rejected(t) == pc[t] = "exit" /\ result[t].outcome = "raised"
\* a call of check_and_record has come to its outcome
Decided(t) == Admitted(t) \/ Rejected(t)
RejectedAs(t, limit_type) == Rejected(t) /\ result[t].limit_type = limit_type

\* the threads between acquiring the lock and releasing it
InBlock == {t \in Threads : pc[t] \notin {"idle", "lock"}}

InHour(timestamp, now) == timestamp > now - USER_WINDOW

TimesInHour(commands, now) ==
    Cardinality({i \in 1..Len(commands) : InHour(commands[i].timestamp, now)})

StoredCommands(store, user) ==
    IF user \in DOMAIN store.per_user THEN store.per_user[user].commands ELSE <<>>

\* counters as a reader of the store sees them at time now
StoredInHour(store, user, now) == TimesInHour(StoredCommands(store, user), now)

StoredTotal(store, pr_key) ==
    IF pr_key \in DOMAIN store.per_pr THEN store.per_pr[pr_key].total_count ELSE 0

StoredToday(store, repo, now) ==
    IF repo \in DOMAIN store.per_repo /\ store.per_repo[repo].date = Day(now)
    THEN store.per_repo[repo].count_today ELSE 0

\* admitted calls, counted from the history and not from the store
AdmittedInHour(user, now) ==
    StoredInHour(seed, user, now)
    + Cardinality({i \in 1..Len(history) :
         history[i].user = user /\ InHour(history[i].timestamp, now)})

AdmittedTotal(pr_key) ==
    StoredTotal(seed, pr_key)
    + Cardinality({i \in 1..Len(history) :
         PrKey(history[i].repo, history[i].pr_number) = pr_key})

AdmittedToday(repo, now) ==
    StoredToday(seed, repo, now)
    + Cardinality({i \in 1..Len(history) :
         history[i].repo = repo /\ Day(history[i].timestamp) = Day(now)})

ArgsKey(t) == PrKey(args[t].repo, args[t].pr_number)

\* ------------------------------------------------------------------ claims
\* C1: a call gets past the three checks only with a user count below 5, a
\* PR total below 10 and a repo count for today below 50; and in every
\* reachable store no user has more than 5 events in the trailing hour, no
\* PR total exceeds 10 and no repo count_today exceeds 50.
C1_AdmitOnlyUnderCeilings ==
    /\ \A t \in Threads :
          (pc[t] \in {"record", "cleanup"} \/ Admitted(t)) =>
             /\ counts[t].user_count < 5
             /\ counts[t].pr_count < 10
             /\ counts[t].repo_count < 50
             /\ counts[t].pr_count = StoredTotal(loaded[t], ArgsKey(t))
    /\ \A u \in Users : StoredInHour(file, u, clock) <= 5
    /\ \A k \in DOMAIN file.per_pr : file.per_pr[k].total_count <= 10
    /\ \A r \in DOMAIN file.per_repo : file.per_repo[r].count_today <= 50

\* a call admitted with all three counters one short of their ceilings, so
\* that the store now holds 5, 10 and 50
C1_Witness ==
    \E t \in Threads :
       /\ Admitted(t)
       /\ counts[t].user_count = 4 /\ counts[t].pr_count = 9
       /\ counts[t].repo_count = 49
       /\ StoredInHour(file, args[t].user, clock) = 5
       /\ StoredTotal(file, ArgsKey(t)) = 10
       /\ StoredToday(file, args[t].repo, clock) = 50

\* C2: the calls of concurrent threads are serialized by the lock: at most
\* one thread is between load and save, the store it works on is the one in
\* the file, every admitted call is counted in the file (none is lost), and
\* the calls admitted for a key never exceed its ceiling.
C2_Serialized ==
    /\ Cardinality(InBlock) <= 1
    /\ \A t \in InBlock : lock = t
    /\ \A t \in Threads : pc[t] \in {"check_user", "check_pr", "check_repo",
                                     "record", "cleanup"} => loaded[t] = file
    /\ \A k \in PrKeys : StoredTotal(file, k) = AdmittedTotal(k)
    /\ \A u \in Users : StoredInHour(file, u, clock) = AdmittedInHour(u, clock)
    /\ \A r \in Repos : StoredToday(file, r, clock) = AdmittedToday(r, clock)
    /\ \A u \in Users : AdmittedInHour(u, clock) <= 5
    /\ \A k \in PrKeys : AdmittedTotal(k) <= 10
    /\ \A r \in Repos : AdmittedToday(r, clock) <= 50

\* two calls of one user were in flight together, the user being one call
\* short of the ceiling: one was admitted and the other is being rejected
C2_Witness ==
    \E t \in Threads, s \in Threads :
       /\ t # s
       /\ RejectedAs(t, "User")
       /\ pc[s] = "idle"
       /\ calls = 2
       /\ Len(history) = 1
       /\ history[1].user = args[t].user
       /\ AdmittedInHour(args[t].user, clock) = 5

\* C3: a rejected call leaves the store as it found it: no counter of any
\* user, PR or repo changes, no event is appended, no cleanup runs and
\* last_cleanup keeps its value.
C3_RejectionWritesNothing ==
    \A t \in Threads : Rejected(t) => file = loaded[t] /\ data[t] = loaded[t]

\* a call rejected at the PR tier while a cleanup was due and its user still
\* had quota left
C3_Witness ==
    \E t \in Threads :
       /\ RejectedAs(t, "PR")
       /\ should_cleanup(file, clock)
       /\ StoredInHour(file, args[t].user, clock) < 5

\* the exceptions as the callers and the tests read them
UserExceeded == [outcome |-> "raised", limit_type |-> "User", limit |-> 5, window |-> "hour"]
PRExceeded == [outcome |-> "raised", limit_type |-> "PR", limit |-> 10, window |-> "total"]
RepoExceeded ==
    [outcome |-> "raised", limit_type |-> "Repository", limit |-> 50, window |-> "day"]

\* thread t takes the step that decides the named check
Decides(t, check) == pc[t] = check /\ pc'[t] # check

\* C4: once 5 calls of a user have been admitted inside the trailing hour,
\* the next call of that user inside that hour is rejected with ('User', 5,
\* 'hour'), and the number of calls admitted to a user inside any trailing
\* hour never exceeds 5.
C4_SixthCallRejected ==
    /\ [][\A t \in Threads :
             (Decides(t, "check_user") /\ AdmittedInHour(args[t].user, clock) >= 5)
                => result'[t] = UserExceeded]_vars
    /\ [](\A u \in Users : AdmittedInHour(u, clock) <= 5)

\* half an hour after the fifth admission the user calls again and is
\* rejected at the user tier
C4_Witness ==
    \E t \in Threads :
       /\ result[t] = UserExceeded /\ pc[t] = "exit"
       /\ clock = StartClock + 1
       /\ Len(history) = 1
       /\ history[1].user = args[t].user
       /\ history[1].timestamp = StartClock
       /\ AdmittedInHour(args[t].user, clock) = 5

\* C5: the PR ceiling is a lifetime cap: no step (a record, a cleanup pass,
\* a status query, the passing of time or of a day) removes a PR record or
\* lowers its total_count, a call for a key whose total is 10 is rejected,
\* and no eleventh call is ever admitted for a key.
C5_PRTotalIsLifetime ==
    /\ [][\A k \in DOMAIN file.per_pr :
             /\ k \in DOMAIN file'.per_pr
             /\ file'.per_pr[k].total_count >= file.per_pr[k].total_count]_vars
    /\ [](\A t \in Threads :
             (Decided(t) /\ StoredTotal(loaded[t], ArgsKey(t)) >= 10)
                => Rejected(t))
    /\ [](\A k \in PrKeys : AdmittedTotal(k) <= 10)

\* a key had its 10 calls on the day before; since then the day has rolled
\* over and a cleanup pass has run, and a call for the key is rejected
C5_Witness ==
    \E t \in Threads :
       /\ result[t] = PRExceeded /\ pc[t] = "exit"
       /\ Day(clock) > Day(StartClock)
       /\ file.last_cleanup > seed.last_cleanup
       /\ StoredTotal(seed, ArgsKey(t)) = 10
       /\ StoredTotal(file, ArgsKey(t)) = 10

LastAdmitted == history[Len(history)]

\* C6: the repo ceiling resets at the day boundary: a call is rejected at the
\* repo tier only by a record of the day of the check, and a call recorded
\* and saved on a later day than the stored record's leaves the record with
\* that day as date and count_today = 1, whatever the old count was.
C6_RepoResetsAtDayBoundary ==
    /\ [][\A t \in Threads :
             (Decides(t, "check_repo") /\ result'[t].outcome = "raised")
                => /\ args[t].repo \in DOMAIN file.per_repo
                   /\ file.per_repo[args[t].repo].date = Day(clock)]_vars
    /\ [](\A t \in Threads :
             ( /\ Admitted(t)
               /\ args[t].repo \in DOMAIN loaded[t].per_repo
               /\ loaded[t].per_repo[args[t].repo].date < Day(LastAdmitted.timestamp)
               /\ Day(clock) = Day(LastAdmitted.timestamp) )
                => /\ args[t].repo \in DOMAIN file.per_repo
                   /\ file.per_repo[args[t].repo].date = Day(clock)
                   /\ file.per_repo[args[t].repo].count_today = 1)

\* the repo was at 50 on day D; the first call of day D+1 is admitted and
\* the record now reads D+1 with count 1
C6_Witness ==
    \E t \in Threads :
       /\ Admitted(t)
       /\ args[t].repo \in DOMAIN loaded[t].per_repo
       /\ loaded[t].per_repo[args[t].repo].count_today = 50
       /\ loaded[t].per_repo[args[t].repo].date = Day(clock) - 1
       /\ file.per_repo[args[t].repo].date = Day(clock)
       /\ file.per_repo[args[t].repo].count_today = 1

\* C7: every rejection is ('User', 5, 'hour'), ('PR', 10, 'total') or
\* ('Repository', 50, 'day') and names the first tier, in the order user, PR,
\* repo, that is at its ceiling: the user check rejects exactly when the user
\* has 5 events in the hour, the PR check (reached only past the user check)
\* exactly when the total is 10, the repo check (reached only past both)
\* exactly when today's count is 50.
C7_RejectionNamesFirstTier ==
    /\ [](\A t \in Threads : Rejected(t) =>
            \/ /\ result[t] = UserExceeded
               /\ counts[t].user_count >= 5
            \/ /\ result[t] = PRExceeded
               /\ counts[t].user_count < 5
               /\ StoredTotal(loaded[t], ArgsKey(t)) >= 10
            \/ /\ result[t] = RepoExceeded
               /\ counts[t].user_count < 5
               /\ StoredTotal(loaded[t], ArgsKey(t)) < 10
               /\ counts[t].repo_count >= 50)
    /\ [][\A t \in Threads :
             /\ Decides(t, "check_user") =>
                  (result'[t] = UserExceeded
                     <=> StoredInHour(file, args[t].user, clock) >= 5)
             /\ Decides(t, "check_pr") =>
                  (result'[t] = PRExceeded <=> StoredTotal(file, ArgsKey(t)) >= 10)
             /\ Decides(t, "check_repo") =>
                  (result'[t] = RepoExceeded
                     <=> StoredToday(file, args[t].repo, clock) >= 50)]_vars

\* all three tiers of the call are at their ceilings and the rejection names
\* the user tier
C7_Witness ==
    \E t \in Threads :
       /\ result[t] = UserExceeded /\ pc[t] = "exit"
       /\ StoredInHour(file, args[t].user, clock) = 5
       /\ StoredTotal(file, ArgsKey(t)) = 10
       /\ StoredToday(file, args[t].repo, clock) = 50

\* C8 as stated: whatever PRs and repos the calls address, a call of a user
\* with fewer than 5 calls in the trailing hour is admitted.
C8_AdmittedWhileUserUnderQuota ==
    \A t \in Threads :
       (Decided(t) /\ counts[t].user_count < 5) => Admitted(t)

\* C8 as amended: the user check of a call rejects exactly when the caller's
\* own admitted calls of the trailing hour number 5 (other users' calls do
\* not count), and a call that passed it is rejected only by a PR total of
\* 10 or a repo count of 50 for today.
C8_UserQuotasIndependent ==
    /\ [][\A t \in Threads :
             Decides(t, "check_user") =>
                (result'[t].outcome = "raised"
                   <=> AdmittedInHour(args[t].user, clock) >= 5)]_vars
    /\ [](\A t \in Threads :
             (Decided(t) /\ counts[t].user_count < 5 /\ ~Admitted(t)) =>
                \/ /\ result[t] = PRExceeded
                   /\ StoredTotal(loaded[t], ArgsKey(t)) >= 10
                \/ /\ result[t] = RepoExceeded
                   /\ args[t].repo \in DOMAIN loaded[t].per_repo
                   /\ loaded[t].per_repo[args[t].repo].count_today >= 50)

\* one user has used the 5 calls of the hour and a call of another user is
\* admitted
C8_Witness ==
    \E t \in Threads :
       /\ Admitted(t)
       /\ Len(history) = 2
       /\ \E u \in Users \ {args[t].user} : AdmittedInHour(u, clock) = 5

\* the call of thread t returned and its cleanup pass ran
CleanupRan(t) == Admitted(t) /\ file.last_cleanup # loaded[t].last_cleanup

\* the events a pass at time now keeps
KeptAt(commands, now) == SelectSeq(commands, LAMBDA cmd : InHour(cmd.timestamp, now))

\* the user's list as the pass finds it: the stored one, and the call's own event
ListBeforePass(t, u) ==
    IF u = args[t].user
    THEN Append(StoredCommands(loaded[t], u),
                [command |-> args[t].command, timestamp |-> LastAdmitted.timestamp])
    ELSE StoredCommands(loaded[t], u)

\* C9: an admitted call runs the cleanup pass exactly when more than an hour
\* has passed since last_cleanup; the pass removes the key of every user
\* without an event inside the hour and leaves every other user exactly the
\* events inside the hour.
C9_CleanupEvictsIdleUsers ==
    /\ [][\A t \in Threads :
             Decides(t, "cleanup") =>
                IF clock - file.last_cleanup > USER_WINDOW
                THEN file'.last_cleanup = clock
                ELSE file'.last_cleanup = file.last_cleanup]_vars
    /\ [](\A t \in Threads : CleanupRan(t) =>
             \A u \in Users :
                LET kept == KeptAt(ListBeforePass(t, u), file.last_cleanup)
                IN IF kept = <<>>
                   THEN u \notin DOMAIN file.per_user
                   ELSE /\ u \in DOMAIN file.per_user
                        /\ file.per_user[u].commands = kept)

\* a user whose events are all older than the hour had a key before the pass
\* and has none after it
C9_Witness ==
    \E t \in Threads :
       /\ CleanupRan(t)
       /\ \E u \in Users \ {args[t].user} :
             /\ u \in DOMAIN loaded[t].per_user
             /\ u \notin DOMAIN file.per_user

\* C10 as stated: after a cleanup pass every repo whose stored date was not
\* today still has a record, with count 0 and today's date.
C10_StaleRepoResetToZero ==
    \A t \in Threads : CleanupRan(t) =>
       \A r \in (DOMAIN loaded[t].per_repo) \ {args[t].repo} :
          loaded[t].per_repo[r].date # Day(file.last_cleanup) =>
             /\ r \in DOMAIN file.per_repo
             /\ file.per_repo[r].count_today = 0
             /\ file.per_repo[r].date = Day(file.last_cleanup)

\* C10 as amended: a cleanup pass removes the record of every repo whose
\* stored date is not today and keeps the records of today unchanged, so
\* that after the pass every stored repo record is of today.
C10_StaleRepoRemoved ==
    \A t \in Threads : CleanupRan(t) =>
       /\ \A r \in DOMAIN file.per_repo :
             file.per_repo[r].date = Day(file.last_cleanup)
       /\ \A r \in (DOMAIN loaded[t].per_repo) \ {args[t].repo} :
             IF loaded[t].per_repo[r].date # Day(file.last_cleanup)
             THEN r \notin DOMAIN file.per_repo
             ELSE /\ r \in DOMAIN file.per_repo
                  /\ file.per_repo[r] = loaded[t].per_repo[r]

\* a repo record of yesterday was in the store before the pass and is gone
\* after it
C10_Witness ==
    \E t \in Threads :
       /\ CleanupRan(t)
       /\ \E r \in (DOMAIN loaded[t].per_repo) \ {args[t].repo} :
             /\ loaded[t].per_repo[r].date = Day(file.last_cleanup) - 1
             /\ r \notin DOMAIN file.per_repo

\* C11 as stated: whenever a process can die, so in every state, the data
\* file is complete: it holds the whole of a store and never incomplete
\* text, also while the store is created or re-initialised.
C11_StoreNeverPartial == file # Partial

\* the store shows the call that thread t was just told is admitted: its
\* event is in the user's list (while inside the hour), the PR total is one
\* up on the loaded one, and the repo's count of the day is one up
Persisted(t) ==
    /\ is_store(file)
    /\ InHour(LastAdmitted.timestamp, clock) =>
          \E i \in 1..Len(StoredCommands(file, args[t].user)) :
             StoredCommands(file, args[t].user)[i] =
                [command |-> args[t].command,
                 timestamp |-> LastAdmitted.timestamp]
    /\ StoredTotal(file, ArgsKey(t)) = StoredTotal(loaded[t], ArgsKey(t)) + 1
    /\ Day(LastAdmitted.timestamp) = Day(clock) =>
          StoredToday(file, args[t].repo, clock) =
             StoredToday(loaded[t], args[t].repo, clock) + 1

\* C12 as stated: when check_and_record has returned success, the store
\* file shows the call in all three tiers, also when a write has failed.
C12_SuccessMeansPersisted ==
    \A t \in Threads : Admitted(t) => Persisted(t)

\* the events of a list as (command, timestamp) pairs
Events(commands) ==
    [i \in 1..Len(commands) |->
        [command |-> commands[i].command, timestamp |-> commands[i].timestamp]]

\* the events of the trailing hour, in the order of the list
EventsInHour(commands, now) ==
    LET Recent(ev) == InHour(ev.timestamp, now)
    IN SelectSeq(Events(commands), Recent)

\* the admitted calls of a user, of a PR key and of a repo, in call order
CallsOfUser(user) ==
    LET Mine(h) == h.user = user
    IN SelectSeq(history, Mine)

CallsOfPR(pr_key) ==
    LET Mine(h) == PrKey(h.repo, h.pr_number) = pr_key
    IN SelectSeq(history, Mine)

CallsOfRepoOn(repo, day) ==
    LET Mine(h) == h.repo = repo /\ Day(h.timestamp) = day
    IN SelectSeq(history, Mine)

StoredPRCommands(store, pr_key) ==
    IF pr_key \in DOMAIN store.per_pr THEN store.per_pr[pr_key].commands ELSE <<>>

StoredRepoCommandsOn(store, repo, day) ==
    IF repo \in DOMAIN store.per_repo /\ store.per_repo[repo].date = day
    THEN store.per_repo[repo].commands ELSE <<>>

\* C13: every admitted call adds one event to each tier, in call order: in
\* every store the events of a user inside the hour are those the service
\* started with followed by the user's admitted calls in call order, the
\* list of a PR is the initial list followed by the admitted calls for the
\* key (each with its caller), the list of a repo dated today is today's
\* initial list followed by today's admitted calls; a PR's total_count is
\* the length of its list and a repo's count_today the length of its list.
C13_RecordsInCallOrder ==
    /\ \A u \in Users :
          EventsInHour(StoredCommands(file, u), clock) =
             EventsInHour(StoredCommands(seed, u), clock)
                \o EventsInHour(CallsOfUser(u), clock)
    /\ \A k \in PrKeys :
          /\ Events(StoredPRCommands(file, k)) =
                Events(StoredPRCommands(seed, k)) \o Events(CallsOfPR(k))
          /\ \A i \in 1..Len(CallsOfPR(k)) :
                StoredPRCommands(file, k)[Len(StoredPRCommands(seed, k)) + i].user
                   = CallsOfPR(k)[i].user
    /\ \A r \in Repos :
          (r \in DOMAIN file.per_repo /\ file.per_repo[r].date = Day(clock)) =>
             Events(file.per_repo[r].commands) =
                Events(StoredRepoCommandsOn(seed, r, Day(clock)))
                   \o Events(CallsOfRepoOn(r, Day(clock)))
    /\ \A k \in DOMAIN file.per_pr :
          file.per_pr[k].total_count = Len(file.per_pr[k].commands)
    /\ \A r \in DOMAIN file.per_repo :
          file.per_repo[r].count_today = Len(file.per_repo[r].commands)

\* two calls for one (user, repo, pr) have been admitted half an hour apart
\* on a store that was empty: each tier lists the two in call order
C13_Witness ==
    /\ Len(history) = 2
    /\ history[1].timestamp < history[2].timestamp
    /\ history[1].user = history[2].user
    /\ history[1].repo = history[2].repo
    /\ Day(history[1].timestamp) = Day(clock)
    /\ seed.per_user = EmptyDict /\ seed.per_pr = EmptyDict
    /\ StoredCommands(file, history[1].user) = Events(history)
    /\ file.per_pr[PrKey(history[1].repo, 7)].total_count = 2
    /\ file.per_repo[history[1].repo].count_today = 2

\* what a status query has to report for a tier with the given count
TierStatus(count, limit, window) ==
    [count |-> count, limit |-> limit, window |-> window,
     remaining |-> limit - count]

RunRejected == trace # <<>> /\ ~trace[1].ran
RunAdmitted == trace # <<>> /\ trace[1].ran

\* the nodes whose bodies have run, in the order of the calls
RECURSIVE NodesOf(_)
NodesOf(tr) ==
    IF tr = <<>> THEN <<>>
    ELSE (IF tr[1].ran THEN <<tr[1].node>> ELSE <<>>) \o NodesOf(Tail(tr))

RanNodes == NodesOf(trace)

\* the heading of a message; "none" for None
Kind(m) == IF "kind" \in DOMAIN m THEN m.kind ELSE "none"

\* the messages the nodes that publish a success write
SuccessKinds ==
    {"No Security Issues Found", "Security Issues Fixed", "Code Optimized",
     "Auto-Fix Complete", "Comprehensive Review Report",
     "Incremental Review Complete", "No New Files to Review"}

\* the nodes that publish a success
SuccessNodes ==
    {"post_no_issues", "create_pr", "finalize", "save_history",
     "generate_tests", "generate_report", "post_no_new"}

\* C15: when the limiter rejects the triggering call, no node body runs
\* afterwards and no side effect of a node occurs: the record file of the
\* incremental review is not written.
C15_RejectedRunsNothing ==
    RunRejected =>
        /\ \A i \in 1..Len(trace) : ~trace[i].ran
        /\ effects = {}

\* C16: when the limiter rejects the triggering call, the message of the
\* handler's response is the quota message with the exceeded limit and the
\* current and remaining counts: no later node has replaced it.
C16_RejectedRunAnswersQuota ==
    [][RunRejected /\ node = "END" =>
          /\ Kind(response'.message) = "Rate Limit Exceeded"
          /\ response'.message = state.agent_result]_vars

\* C17: once a node has returned a State with error set, no node that
\* publishes a success runs afterwards and the terminal State carries no
\* success result.
C17_ErrorEndsTheRun ==
    /\ \A i, j \in 1..Len(trace) :
          i < j /\ trace[i].error =>
              ~(trace[j].ran /\ trace[j].node \in SuccessNodes)
    /\ node = "END" /\ state.error # None =>
          Kind(state.agent_result) \notin SuccessKinds

\* C18: the response to a terminal State has success exactly when error is
\* unset, and with error set its message is a failure message: not the
\* agent_result of a node that publishes a success, and not None.
C18_FailureIsStructured ==
    [][node = "END" =>
          /\ response'.success <=> state.error = None
          /\ state.error # None =>
                /\ response'.message # None
                /\ Kind(response'.message) \notin SuccessKinds]_vars

\* the scan of the security run in hand has returned n issues
ScanFound(n) ==
    /\ pipeline = "security_fix"
    /\ RunAdmitted
    /\ state.scan_complete
    /\ state.security_issues = n

\* tr is the beginning of full
IsPrefix(tr, full) ==
    Len(tr) <= Len(full) /\ tr = SubSeq(full, 1, Len(tr))

\* C19: an admitted security run whose scan returns zero issues runs
\* scan_security, then post_no_issues, and ends there: no other node runs,
\* the terminal agent_result is "No Security Issues Found" and error is unset.
C19_NoIssuesPath ==
    ScanFound(0) =>
        /\ IsPrefix(RanNodes, <<"scan_security", "post_no_issues">>)
        /\ Len(trace) = Len(RanNodes)
        /\ node = "post_no_issues" <=> Len(trace) = 1
        /\ node \in {"END", "idle"} <=> Len(trace) = 2
        /\ node \in {"END", "idle"} =>
              /\ state.agent_result = NoIssuesMessage
              /\ state.error = None
        /\ node = "idle" =>
              response = [success |-> TRUE, message |-> NoIssuesMessage]

C19_Witness ==
    /\ ScanFound(0)
    /\ node = "idle"
    /\ RanNodes = <<"scan_security", "post_no_issues">>
    /\ response.success

\* C20: an admitted security run with at least one issue, fixes generated
\* and tests passed has run scan_security, generate_fixes, create_branch,
\* run_tests and create_pr in that order when it ends, with error unset,
\* pr_created true and an agent_result that shows the URL of the opened
\* request.
C20_FixPath ==
    (\E n \in 1..MaxIssues : ScanFound(n))
    /\ state.fixes_generated /\ state.tests_passed /\ node = "END" =>
        /\ RanNodes = <<"scan_security", "generate_fixes", "create_branch",
                        "run_tests", "create_pr">>
        /\ state.error = None
        /\ state.pr_created
        /\ state.pr_url # None
        /\ Kind(state.agent_result) = "Security Issues Fixed"
        /\ state.agent_result.pr_url = state.pr_url

\* ------------------------------------------ claims on the conditional edges
\* the security run stands behind run_tests, whose tests were reported failed
TestsFailed ==
    /\ pipeline = "security_fix"
    /\ trace[1].node = "run_tests"
    /\ state.test_results.status = "failed"

\* C21: a security run whose tests are reported as failed goes from run_tests
\* to rollback and never to create_pr; it ends with rollback_complete, an
\* agent_result that reports the rollback, pr_created false and pr_url
\* unset, and the failure of the tests does not set error.
C21_FailedTestsRollBack ==
    TestsFailed =>
        /\ \A d \in decisions : d.label = "rollback"
        /\ node # "create_pr"
        /\ \A i \in 1..Len(trace) : trace[i].node # "create_pr"
        /\ ~state.pr_created
        /\ state.pr_url = None
        /\ (state.error # None) <=> trace[1].error
        /\ node \in {"END", "idle"} =>
              /\ RanNodes = <<"run_tests", "rollback">>
              /\ state.rollback_complete
              /\ Kind(state.agent_result) = "Security Fix Rollback"
              /\ state.agent_result.failed = state.test_results.failed

C21_Witness ==
    /\ TestsFailed
    /\ node = "idle"
    /\ state.rollback_complete
    /\ state.error = None
    /\ response.success

\* ------------------------------------------- claims on the State of a run
\* C22: every node and every node wrapper returns a new State and leaves the
\* State it was passed as it was: after a call the object the engine passed
\* in still has the content it had before the call.
C22_PassedStateUntouched ==
    [][Len(trace') = Len(trace) + 1 =>
          trace'[Len(trace')].passed = state]_vars

\* ------------------------------------------ claims on the update functions
\* every call made on the State so far is a call of update_metadata
MetadataCalls ==
    \A i \in 1..Len(trace) : trace[i].call = "update_metadata"

\* the metadata create_initial_workflow_state gave the State
InitialMetadata ==
    create_initial_workflow_state("r1", 7, "diff", <<"a">>,
                                  StartClock).metadata

\* the sums of the tokens and cost_usd arguments and the number of calls
\* with model_call true
RECURSIVE SumTokens(_)
SumTokens(tr) ==
    IF tr = <<>> THEN 0 ELSE tr[1].tokens + SumTokens(Tail(tr))

RECURSIVE SumCost(_)
SumCost(tr) ==
    IF tr = <<>> THEN 0 ELSE tr[1].cost_usd + SumCost(Tail(tr))

RECURSIVE ModelCalls(_)
ModelCalls(tr) ==
    IF tr = <<>> THEN 0
    ELSE (IF tr[1].model_call THEN 1 ELSE 0) + ModelCalls(Tail(tr))

\* the keys the calls passed as extra keywords
NamedKeys == UNION {DOMAIN trace[i].extra_metadata : i \in 1..Len(trace)}

\* the keys of the cumulative values, named by the arguments cost_usd,
\* tokens and model_call
Counters == {"total_cost_usd", "total_tokens", "model_calls"}

\* the value of the last call that passed key k as an extra keyword
LastNamed(k) ==
    LET i == CHOOSE i \in 1..Len(trace) :
                 /\ k \in DOMAIN trace[i].extra_metadata
                 /\ \A j \in (i + 1)..Len(trace) :
                       k \notin DOMAIN trace[j].extra_metadata
    IN trace[i].extra_metadata[k]

step_written(p, n) ==
    CASE p = "security_fix" ->
           (CASE n = "scan_security" -> "scan_complete"
              [] n = "generate_fixes" -> "fixes_generated"
              [] n = "create_branch" -> "branch_created"
              [] n = "run_tests" -> "tests_complete"
              [] n = "rollback" -> "rolled_back"
              [] OTHER -> "complete")
      [] p = "optimize" ->
           (CASE n = "detect_language" -> "language_detected"
              [] n = "apply_optimizations" -> "optimized"
              [] n = "run_tests" -> "tests_complete"
              [] n = "rollback" -> "rolled_back"
              [] OTHER -> "complete")
      [] p = "auto_fix" ->
           (CASE n = "detect_bugs" -> "bugs_detected"
              [] n = "generate_fixes" -> "fixes_generated"
              [] OTHER -> "complete")
      [] p = "comprehensive_review" ->
           (CASE n = "fetch_diff" -> "diff_fetched"
              [] n \in {"security_scan", "performance_scan",
                        "quality_scan"} -> None
              [] n = "aggregate_findings" -> "aggregated"
              [] OTHER -> "complete")
      [] p = "incremental_review" ->
           (CASE n = "load_history" -> "history_loaded"
              [] n = "identify_new" -> "files_identified"
              [] n = "review_new" -> "review_complete"
              [] OTHER -> "complete")

\* C24 (as stated): current_step names the last completed node, and when the
\* run has ended it names the terminal node that completed, also in a run
\* where a node set error or the limiter rejected the call.
C24_CurrentStepNamesLastNode ==
    (pipeline \in Pipelines /\ trace # <<>> /\ node # "raised") =>
        state.current_step = step_written(pipeline, LastNode)

\* ------------------------------------------------ claims on the routing
\* C25: every label a routing function returns at a conditional edge of the
\* five pipelines and of the code-review graph, for a State with or without
\* error and with result fields still at their initial values, is a key of
\* the table of that edge; no run ends on an unmapped label: a run raises
\* only inside a node.
C25_RoutesToDeclaredLabels ==
    /\ [](\A d \in decisions :
             d.label \in DOMAIN path_map(pipeline, d.node))
    /\ [][node' = "raised" => Len(trace') = Len(trace) + 1]_vars

C25_Witness ==
    /\ pipeline = "security_fix"
    /\ node = "post_no_issues"
    /\ \E d \in decisions :
          /\ d.node = "scan_security"
          /\ d.state.error # None
          /\ d.state.security_issues = 0
          /\ d.state.scan_complete = FALSE

TerminalNodes(p) ==
    CASE p = "security_fix" -> {"create_pr", "rollback", "post_no_issues"}
      [] p = "optimize" -> {"finalize", "rollback"}
      [] p = "auto_fix" -> {"generate_tests"}
      [] p = "comprehensive_review" -> {"generate_report"}
      [] p = "incremental_review" -> {"save_history", "post_no_new"}

\* a run is under way: there is a node to call
Running == node \notin {"idle", "END", "raised", "edge", "routed"}

\* no node was called twice in the run
NoNodeTwice ==
    \A i, j \in 1..Len(trace) : trace[i].node = trace[j].node => i = j

\* C27: every run of the five pipelines ends: no node is called twice in a
\* run, a run under way comes to its end after finitely many node calls
\* (or stops at a node that raised), and a run that ended did so behind a
\* node whose only edge goes to END.
C27_RunsTerminate ==
    /\ [](pipeline \in Pipelines => NoNodeTwice)
    /\ []((pipeline \in Pipelines /\ node = "END")
             => LastNode \in TerminalNodes(pipeline))
    /\ (Running ~> node \in {"END", "raised"})

C27_Witness ==
    /\ pipeline = "comprehensive_review"
    /\ node = "END"
    /\ Len(trace) = 6
    /\ LastNode = "generate_report"

\* ------------------------------------------------------- concurrent runs
\* Two commands are handled at once on one event loop.  A node has no await
\* between its first and last statement that lets the other run in (the
\* calls to the limiter and to the record file are blocking), so the runs
\* alternate at node boundaries.  In this specification pipeline, node,
\* state, trace and args are indexed by run; args holds what the run was
\* called with and seed what the earlier commands left.
Runs == {1, 2}

\* the graphs run side by side: the one that keeps a record file, and one
\* that shares only the limiter's store with it
ConcurrentPipelines == {"incremental_review", "optimize"}

\* graph.add_node
GraphNodes(p) ==
    CASE p = "incremental_review" ->
           {"load_history", "identify_new", "review_new", "save_history",
            "post_no_new"}
      [] p = "optimize" ->
           {"detect_language", "apply_optimizations", "run_tests",
            "finalize", "rollback"}

\* what the collaborators of a run answer, node by node
AnswerSets(p) ==
    CASE p = "incremental_review" ->
           {[n \in GraphNodes(p) |->
               IF n = "save_history" THEN written ELSE Ok(TRUE)] :
              written \in outcomes(p, "save_history")}
      [] p = "optimize" ->
           {[n \in GraphNodes(p) |->
               IF n = "detect_language" THEN detected
               ELSE IF n = "apply_optimizations" THEN applied
               ELSE Ok(TRUE)] :
              detected \in outcomes(p, "detect_language"),
              applied \in outcomes(p, "apply_optimizations")}

\* the commands a run can be, all on pull request r1#7; the file list of the
\* pull request matters to the incremental review only
RunArgs(p, commenters) ==
    {[pipeline |-> p, commenter |-> u, repo_name |-> "r1", pr_number |-> 7,
      files |-> files, answers |-> a] :
        u \in commenters,
        files \in IF p = "incremental_review" THEN ChangedFiles \ {<<>>}
                  ELSE {<<"a">>},
        a \in AnswerSets(p)}

\* run 1 is an incremental review asked for by u1, run 2 any command
ConcurrentArgs ==
    {[r \in Runs |-> IF r = 1 THEN a1 ELSE a2] :
        a1 \in RunArgs("incremental_review", {"u1"}),
        a2 \in UNION {RunArgs(p, Users) : p \in ConcurrentPipelines}}

\* one call of a node by the engine, as in Step: the entry node goes through
\* rate_limited, a node that returns is followed along its edge
engine_step(p, n, s, f, tr, o, now) ==
    LET limited == n = entry_point(p)
        checked == check_and_record(f, s.command.commenter, s.repo_name,
                                    s.pr_number, s.command.name, now)
        rejected == limited /\ checked.result # Returned
        key == PrKey(s.repo_name, s.pr_number)
        after == IF limited THEN checked.data ELSE f
        refused == rate_limit_rejected(
                       s, checked.result,
                       limits_status(f, s.command.commenter, s.repo_name,
                                     s.pr_number, now, now, now, now))
        returned == run_node(p, n, s, o, tr[key])
    IN IF rejected
       THEN [state |-> refused, node |-> next_node(p, n, refused),
             file |-> after, tracking |-> tr,
             called |-> Called(n, FALSE, refused, refused)]
       ELSE IF returned = NodeRaised
       THEN [state |-> s, node |-> "raised", file |-> after,
             tracking |-> tr, called |-> Called(n, TRUE, returned, s)]
       ELSE [state |-> returned, node |-> next_node(p, n, returned),
             file |-> after,
             tracking |->
                 IF "history_written" \in effects_of(p, n, returned)
                 THEN [tr EXCEPT ![key] =
                          ReviewRecord(returned.repo_name,
                                       returned.pr_number,
                                       returned.all_files)]
                 ELSE tr,
             called |-> Called(n, TRUE, returned, s)]

\* the State a run starts with
initial_state(a) ==
    create_state(a.pipeline, a.repo_name, a.pr_number,
                 CommandOf(a.pipeline, a.commenter), [files |-> a.files])

ConcurrentInit ==
    /\ clock = StartClock
    /\ file \in SeedStores
    /\ tracking \in SeedTracking
    /\ seed = [file |-> file, tracking |-> tracking]
    /\ history = <<>>
    /\ lock = NoThread
    /\ pc = [t \in Threads |-> "idle"]
    /\ args \in ConcurrentArgs
    /\ data = [t \in Threads |-> NoData]
    /\ loaded = [t \in Threads |-> NoData]
    /\ counts = [t \in Threads |-> NoCounts]
    /\ result = [t \in Threads |-> NoResult]
    /\ calls = 0
    /\ tmp = NoFile
    /\ pipeline = [r \in Runs |-> args[r].pipeline]
    /\ node = [r \in Runs |-> "idle"]
    /\ state = [r \in Runs |-> None]
    /\ trace = [r \in Runs |-> <<>>]
    /\ effects = {}
    /\ response = None
    /\ decisions = {}

\* the handler of run r builds the initial State and calls ainvoke
Submit(r) ==
    /\ node[r] = "idle"
    /\ state[r] = None
    /\ node' = [node EXCEPT ![r] = entry_point(pipeline[r])]
    /\ state' = [state EXCEPT ![r] = initial_state(args[r])]
    /\ UNCHANGED <<clock, file, lock, pc, args, data, counts, result, calls,
                   loaded, seed, history, tmp, pipeline, trace, effects,
                   response, tracking, decisions>>

\* the engine calls the current node of run r
RunStep(r) ==
    /\ node[r] \notin {"idle", "END", "raised"}
    /\ LET next == engine_step(pipeline[r], node[r], state[r], file,
                               tracking, args[r].answers[node[r]], clock)
       IN /\ state' = [state EXCEPT ![r] = next.state]
          /\ node' = [node EXCEPT ![r] = next.node]
          /\ trace' = [trace EXCEPT ![r] = Append(@, next.called)]
          /\ file' = next.file
          /\ tracking' = next.tracking
          /\ effects' = effects \cup
                        IF next.node = "raised" THEN {}
                        ELSE effects_of(pipeline[r], node[r], next.state)
    /\ UNCHANGED <<clock, lock, pc, args, data, counts, result, calls,
                   loaded, seed, history, tmp, pipeline, response,
                   decisions>>

ConcurrentNext == \E r \in Runs : Submit(r) \/ RunStep(r)

ConcurrentSpec == ConcurrentInit /\ [][ConcurrentNext]_vars

\* a run alone, from its node n to its end
RECURSIVE run_to_end(_, _, _, _, _, _, _)
run_to_end(p, n, s, f, tr, a, now) ==
    IF n \in {"END", "raised"}
    THEN [state |-> s, node |-> n, file |-> f, tracking |-> tr]
    ELSE LET next == engine_step(p, n, s, f, tr, a[n], now)
         IN run_to_end(p, next.node, next.state, next.file, next.tracking,
                       a, now)

\* the runs one after the other, first before second, from the seed
one_after_the_other(first, second) ==
    LET run(r, f, tr) ==
            run_to_end(args[r].pipeline, entry_point(args[r].pipeline),
                       initial_state(args[r]), f, tr, args[r].answers, clock)
        r1 == run(first, seed.file, seed.tracking)
        r2 == run(second, r1.file, r1.tracking)
    IN [state |-> [r \in Runs |-> IF r = first THEN r1.state ELSE r2.state],
        node |-> [r \in Runs |-> IF r = first THEN r1.node ELSE r2.node],
        file |-> r2.file,
        tracking |-> r2.tracking]

\* both runs have ended
BothEnded == \A r \in Runs : node[r] \in {"END", "raised"}

\* C28 (as stated): two runs interleaved at their suspension points end with
\* the terminal States, the store and the record files of the two runs made
\* one after the other in one of the two orders.
C28_RunsSerializable ==
    BothEnded =>
        \E first \in Runs :
            LET serial == one_after_the_other(first,
                                              CHOOSE r \in Runs : r # first)
            IN /\ state = serial.state
               /\ node = serial.node
               /\ file = serial.file
               /\ tracking = serial.tracking

\* the ledger entry a call of Optimizer.restore_snapshot would leave
SnapshotRestored == "snapshot_restored"

\* the body of node n has run in this run
HasRun(n) == \E i \in 1..Len(trace) : trace[i].node = n /\ trace[i].ran

\* C29 (as stated): in the optimize pipeline the snapshot is taken before
\* the tests run; finalize runs only when test_passed is true; failed tests
\* lead to rollback, which restores the files from the snapshot and reports
\* it; finalize and rollback never both run, and one of them has run when
\* the run has ended.
C29_OptimizeGate ==
    (pipeline = "optimize" /\ state # None) =>
        /\ state.tests_run => state.snapshot_created
        /\ HasRun("finalize") => state.test_passed
        /\ HasRun("rollback") =>
              /\ ~state.test_passed
              /\ state.rollback_performed
              /\ state.agent_result = OptimizationRolledBackMessage
              /\ SnapshotRestored \in effects
        /\ ~(HasRun("finalize") /\ HasRun("rollback"))
        /\ node = "END" => (HasRun("finalize") \/ HasRun("rollback"))

\* the nodes of the auto-fix graph in the order of its edges
AutoFixOrder == <<"detect_bugs", "generate_fixes", "generate_tests">>

\* the nodes the engine has called in this run, in call order
CalledNodes == [i \in 1..Len(trace) |-> trace[i].node]

\* C30: a run of the auto-fix pipeline calls detect_bugs, generate_fixes and
\* generate_tests in that order and then ends, whatever the State holds:
\* the node to call next is given by the number of nodes called alone, the
\* bodies of generate_fixes and generate_tests run in every run, the run
\* ends only behind generate_tests, and the summary is published whenever
\* generate_tests itself did not fail.
C30_AutoFixNoGate ==
    (pipeline = "auto_fix" /\ state # None) =>
        /\ IsPrefix(CalledNodes, AutoFixOrder)
        /\ node # "raised"
        /\ Running => node = AutoFixOrder[Len(trace) + 1]
        /\ node = "END" => CalledNodes = AutoFixOrder
        /\ \A i \in 2..Len(trace) : trace[i].ran
        /\ (node = "END" /\ state.tests_generated) =>
              Kind(state.agent_result) = "Auto-Fix Complete"

C30_Witness ==
    /\ pipeline = "auto_fix"
    /\ node = "END"
    /\ CalledNodes = AutoFixOrder
    /\ trace[1].ran /\ trace[1].error
    /\ state.detected_bugs = 0
    /\ state.agent_result # None
    /\ state.tests_generated

\* -------------------------------------- claims on the incremental review
\* the files a record file names as reviewed; no file, or one that cannot
\* be read, names none
RecordedFiles(history_file) ==
    IF history_file \in {NoFile, Partial} THEN {}
    ELSE history_file.reviewed_files

\* the current files of the pull request that record file does not name
FilesNotIn(files, history_file) ==
    LET IsNew(f) == f \notin RecordedFiles(history_file)
    IN SelectSeq(files, IsNew)

\* the record file of the pull request of this run
RunRecord == tracking[PrKey(state.repo_name, state.pr_number)]

\* C31 (as stated): in the incremental review new_files_to_review is the
\* current files absent from the prior record; when it is empty the run
\* ends in post_no_new, nothing is reviewed and the record is not written;
\* otherwise review_new and save_history run, the record is written, and
\* post_no_new does not run.
C31_ReviewsNewFilesOnly ==
    (pipeline = "incremental_review" /\ state # None /\ trace # <<>>) =>
        /\ LastNode = "identify_new" =>
              state.new_files_to_review =
                  FilesNotIn(state.pr_data.files, RunRecord)
        /\ (node = "END" /\ state.new_files_to_review = <<>>) =>
              /\ LastNode = "post_no_new"
              /\ ~HasRun("review_new")
              /\ ~HasRun("save_history")
              /\ "history_written" \notin effects
        /\ (node = "END" /\ state.new_files_to_review # <<>>) =>
              /\ HasRun("review_new")
              /\ LastNode = "save_history"
              /\ ~HasRun("post_no_new")
              /\ state.history_saved =>
                    /\ "history_written" \in effects
                    /\ RunRecord = ReviewRecord(state.repo_name,
                                                state.pr_number,
                                                state.pr_data.files)

\* ------------------------------------------------- claims on the cleanup
\* the times from now on that the model reaches
Later == clock..MaxClock

\* what a caller can learn from store d at time t: the three counts, the
\* decision of check_and_record and the report of get_limits_status
Observed(d, user, repo, pr_number, t) ==
    [user_count |-> count_user_commands(d, user, t),
     pr_count |-> count_pr_commands(d, PrKey(repo, pr_number)),
     repo_count |-> count_repo_commands(d, repo, t),
     decision |-> check_and_record(d, user, repo, pr_number, "review",
                                   t).result,
     status |-> limits_status(d, user, repo, pr_number, t, t, t, t)]

\* C32: a cleanup pass made now changes nothing a caller can learn, now or
\* later: for every user, repository and pull request the counts, the
\* decision and the reported status are those of the store as it was; the
\* pass drops only user events the count ignores and repository entries of
\* another day, and leaves the PR data as it is.
C32_CleanupTransparent ==
    LET cleaned == cleanup_old_entries(file, clock)
    IN /\ \A user \in Users, repo \in Repos, pr_number \in PRNumbers,
            t \in Later :
            Observed(cleaned, user, repo, pr_number, t) =
                Observed(file, user, repo, pr_number, t)
       /\ cleaned.per_pr = file.per_pr
       /\ \A user \in DOMAIN file.per_user :
            \A i \in 1..Len(file.per_user[user].commands) :
               LET cmd == file.per_user[user].commands[i]
               IN in_window(cmd.timestamp, clock) <=>
                     /\ user \in DOMAIN cleaned.per_user
                     /\ \E j \in 1..Len(cleaned.per_user[user].commands) :
                           cleaned.per_user[user].commands[j] = cmd
       /\ DOMAIN cleaned.per_repo =
             {repo \in DOMAIN file.per_repo :
                 file.per_repo[repo].date = Day(clock)}

C32_Witness ==
    LET cleaned == cleanup_old_entries(file, clock)
    IN /\ history # <<>>
       /\ DOMAIN cleaned.per_user # DOMAIN file.per_user
       /\ DOMAIN cleaned.per_repo # DOMAIN file.per_repo
       /\ \E user \in Users, repo \in Repos, pr_number \in PRNumbers :
             check_and_record(file, user, repo, pr_number, "review",
                              clock).result # Returned

\* ------------------------------------------- claims on a lost store file
\* store d holds no record of any user, pull request or repository
NoRecords(d) ==
    /\ d.per_user = EmptyDict
    /\ d.per_pr = EmptyDict
    /\ d.per_repo = EmptyDict

\* the call under way has its store loaded
StoreLoaded == loaded[Worker] # NoData

\* the call under way is a call of check_and_record
Recording == args[Worker] # NoArgs /\ args[Worker].command # NoCommand

\* C33: a call that finds the data file missing, not JSON or without the
\* key "limits" writes the empty structure and goes on with it: it loads a
\* store without records, every count it takes is zero, check_and_record
\* returns normally and leaves no command but its own in the file (the
\* lifetime total of the pull request is 1), and get_limits_status reports
\* zero for the three tiers.
C33_LostStoreStartsAnew ==
    /\ [][(pc[Worker] = "lock" /\ ~is_store(file)
              /\ pc'[Worker] # pc[Worker])
            => pc'[Worker] = "load_open"]_vars
    /\ [](pc[Worker] = "reload" => NoRecords(file))
    /\ [][(pc[Worker] = "reload" /\ pc'[Worker] # pc[Worker])
            => (loaded'[Worker] = file /\ data'[Worker] = file
                /\ pc'[Worker] \in {"check_user", "status"})]_vars
    /\ []((StoreLoaded /\ NoRecords(loaded[Worker])) =>
            /\ counts[Worker] = NoCounts
            /\ (pc[Worker] = "exit" /\ Recording) =>
                  /\ result[Worker] = Returned
                  /\ count_pr_commands(
                         file, PrKey(args[Worker].repo,
                                     args[Worker].pr_number)) = 1
                  /\ Len(user_commands(file, args[Worker].user)) <= 1
                  /\ DOMAIN file.per_user \subseteq {args[Worker].user}
                  /\ DOMAIN file.per_pr = {PrKey(args[Worker].repo,
                                                 args[Worker].pr_number)}
                  /\ DOMAIN file.per_repo \subseteq {args[Worker].repo}
            /\ (pc[Worker] = "exit" /\ ~Recording) =>
                  /\ result[Worker].outcome = "status"
                  /\ result[Worker].status.user.count = 0
                  /\ result[Worker].status.pr.count = 0
                  /\ result[Worker].status.repo.count = 0
                  /\ result[Worker].status.pr.remaining = PR_LIMIT)

\* the pull request was at its lifetime ceiling before the file was lost
C33_Witness ==
    /\ pc[Worker] = "exit"
    /\ Recording
    /\ result[Worker] = Returned
    /\ NoRecords(loaded[Worker])
    /\ count_pr_commands(seed, PrKey(args[Worker].repo,
                                     args[Worker].pr_number)) >= PR_LIMIT

\* ---------------------------------------------------------------- C37
\* the step is a call of update_state
UpdateStateCalled ==
    /\ Len(trace') = Len(trace) + 1
    /\ trace'[Len(trace')].call = "update_state"

\* C37: update_state(state, **kwargs) returns a State with the keys of the
\* State it was given: a key named in kwargs has the value of the keyword, a
\* keyword that is not a key is left out, every other field but metadata is
\* the field it was, and the metadata, when no keyword names it, is the
\* metadata it was with updated_at set to the time of the call.
C37_UpdateStateFrame ==
    [][UpdateStateCalled =>
         LET kwargs == trace'[Len(trace')].kwargs
             now == trace'[Len(trace')].now
         IN /\ DOMAIN state' = DOMAIN state
            /\ \A k \in DOMAIN state \cap DOMAIN kwargs :
                  state'[k] = kwargs[k]
            /\ \A k \in DOMAIN state \ (DOMAIN kwargs \cup {"metadata"}) :
                  state'[k] = state[k]
            /\ "metadata" \notin DOMAIN kwargs =>
                  /\ DOMAIN state'.metadata = DOMAIN state.metadata
                  /\ \A m \in DOMAIN state.metadata \ {"updated_at"} :
                        state'.metadata[m] = state.metadata[m]
                  /\ state'.metadata.updated_at = now]_vars

\* update_state has been called with a keyword that is no key of a State
\* with an error and a finding, later than the State was created
C37_Witness ==
    /\ trace # <<>>
    /\ trace[Len(trace)].call = "update_state"
    /\ "unknown" \in DOMAIN trace[Len(trace)].kwargs
    /\ "unknown" \notin DOMAIN state
    /\ state.error # None
    /\ state.metadata.updated_at > state.metadata.created_at

\* ---------------------------------------------------------------- C35
\* the calls of the run in hand whose body ran and whose node is one of ns
RanAmong(ns) == {i \in 1..Len(trace) : trace[i].ran /\ trace[i].node \in ns}

\* the security run in hand
SecurityRun == pipeline = "security_fix" /\ trace # <<>> /\ state # None

\* C35: in a security run pr_created is true only with tests_passed true
\* and rollback_complete false; create_pr is called only behind a run_tests
\* that has returned, with tests_passed true; at most one of create_pr,
\* rollback and post_no_issues runs, and exactly one has run when the run
\* has ended.
C35_RequestOnlyAfterTestsPassed ==
    SecurityRun =>
        /\ state.pr_created => state.tests_passed /\ ~state.rollback_complete
        /\ \A i \in 1..Len(trace) :
              trace[i].node = "create_pr" =>
                  \E j \in 1..(i - 1) :
                     trace[j].node = "run_tests" /\ trace[j].ran
        /\ node = "create_pr" => HasRun("run_tests") /\ state.tests_passed
        /\ Cardinality(RanAmong(TerminalNodes("security_fix"))) <= 1
        /\ node \in {"END", "idle"} =>
              Cardinality(RanAmong(TerminalNodes("security_fix"))) = 1

\* a run has gone from run_tests with passed tests to create_pr, which opened
\* the request, and has ended
C35_Witness ==
    /\ SecurityRun
    /\ node = "END"
    /\ state.pr_created
    /\ state.tests_passed
    /\ HasRun("run_tests")
    /\ LastNode = "create_pr"
    /\ \E d \in decisions : d.node = "run_tests" /\ d.label = "create_pr"

\* ------------------------------------------- the same review asked twice
\* Two /incremental-review commands on pull request r1#7, the second
\* handled when the first has been answered; the variables are indexed by
\* run as in ConcurrentSpec.
TwiceFiles == ChangedFiles \cup {<<"b">>}

\* the two commands: any file list, any commenter, the record file written
\* or the write failing
TwiceArgs ==
    LET Commands2(commenters) ==
            {[pipeline |-> "incremental_review", commenter |-> u,
              repo_name |-> "r1", pr_number |-> 7, files |-> files,
              answers |-> a] :
                u \in commenters, files \in TwiceFiles,
                a \in AnswerSets("incremental_review")}
    IN {[r \in Runs |-> IF r = 1 THEN a1 ELSE a2] :
           a1 \in Commands2({"u1"}), a2 \in Commands2(Users)}

TwiceInit ==
    /\ clock = StartClock
    /\ file \in SeedStores
    /\ tracking \in SeedTracking
    /\ seed = [file |-> file, tracking |-> tracking]
    /\ history = <<>>
    /\ lock = NoThread
    /\ pc = [t \in Threads |-> "idle"]
    /\ args \in TwiceArgs
    /\ data = [t \in Threads |-> NoData]
    /\ loaded = [t \in Threads |-> NoData]
    /\ counts = [t \in Threads |-> NoCounts]
    /\ result = [t \in Threads |-> NoResult]
    /\ calls = 0
    /\ tmp = NoFile
    /\ pipeline = [r \in Runs |-> args[r].pipeline]
    /\ node = [r \in Runs |-> "idle"]
    /\ state = [r \in Runs |-> None]
    /\ trace = [r \in Runs |-> <<>>]
    /\ effects = {}
    /\ response = None
    /\ decisions = {}

\* the second command comes in when the first run is over
Resubmit ==
    /\ node[1] \in {"END", "raised"}
    /\ Submit(2)

TwiceNext == Submit(1) \/ RunStep(1) \/ Resubmit \/ RunStep(2)

TwiceSpec == TwiceInit /\ [][TwiceNext]_vars

\* ---------------------------------------------------------------- C36
\* the limiter admitted the command of run r
AdmittedRun(r) == trace[r] # <<>> /\ trace[r][1].ran

\* the body of node n has run in run r
HasRunIn(r, n) ==
    \E i \in 1..Len(trace[r]) : trace[r][i].node = n /\ trace[r][i].ran

\* run r has ended behind node n
EndedIn(r, n) ==
    /\ node[r] = "END"
    /\ trace[r][Len(trace[r])].node = n

\* the file names of a file list
FileSet(files) == {files[i] : i \in 1..Len(files)}

\* the same command twice, both admitted, the second run at its end
SameTwice ==
    /\ AdmittedRun(1) /\ AdmittedRun(2)
    /\ args[1].files = args[2].files
    /\ node[1] = "END" /\ node[2] = "END"

\* the second run finds nothing new and ends in post_no_new
NothingNew ==
    /\ state[2].new_files_to_review = <<>>
    /\ EndedIn(2, "post_no_new")
    /\ ~HasRunIn(2, "review_new") /\ ~HasRunIn(2, "save_history")

\* run r has just come back from save_history
SaveHistoryCalled(r) ==
    /\ Len(trace'[r]) = Len(trace[r]) + 1
    /\ trace'[r][Len(trace'[r])].node = "save_history"

\* the record of r1#7 names exactly the files of run r
RecordIsCurrent(r) ==
    /\ tracking'[PrKey("r1", 7)] \notin {NoFile, Partial}
    /\ tracking'[PrKey("r1", 7)].reviewed_files = FileSet(args[r].files)

NoInstallation(s) == Get(s.pr_data, "installation_id", 0) = 0

\* the executor's call of create_initial_workflow_state: installation_id and
\* the webhook's metadata go into pr_data
initial_workflow_state(repo_name, pr_number, installation_id, pr_metadata, now) ==
    LET created == create_initial_workflow_state(
                       repo_name, pr_number,
                       Get(pr_metadata, "diff", ""),
                       Get(pr_metadata, "files", <<>>), now)
    IN [created EXCEPT !.pr_data =
           Merge(@, Merge([installation_id |-> installation_id],
                          Drop(pr_metadata, {"diff", "files"})))]

\* validate_workflow_state: the required keys of the State and of pr_data
validate_workflow_state(s) ==
    IF ~({"pr_data", "review_results", "current_step", "error", "metadata"}
           \subseteq DOMAIN s)
    THEN [is_valid |-> FALSE, error_msg |-> "Missing required keys"]
    ELSE IF ~({"repo_name", "pr_number"} \subseteq DOMAIN s.pr_data)
    THEN [is_valid |-> FALSE, error_msg |-> "pr_data missing required keys"]
    ELSE [is_valid |-> TRUE, error_msg |-> None]

start_node(s, now) ==
    IF ~({"repo_name", "pr_number"} \subseteq DOMAIN s.pr_data)
    THEN set_error(s, Error("Missing required PR data fields"), now)
    ELSE update_state(s, [current_step |-> "started",
                          metadata |-> Put(s.metadata, "workflow_started_at",
                                           now)],
                      now)

\* fetched: Ok of the diff and the files GitHub returns, or Raised
fetch_pr_node(s, fetched, now) ==
    LET fetching == update_state(s, [current_step |-> "fetching_pr"], now)
    IN IF NoInstallation(fetching)
       THEN set_error(fetching,
                      Error("Installation ID not found in PR data"), now)
       ELSE IF fetched.raised
       THEN set_error(fetching, Error("Failed to fetch PR details"), now)
       ELSE update_state(fetching,
                         [pr_data |-> Merge(fetching.pr_data,
                                            [diff |-> fetched.value.diff,
                                             files |-> fetched.value.files]),
                          current_step |-> "pr_fetched"],
                         now)

\* the findings of an analysis added one by one
RECURSIVE add_findings(_, _, _)
add_findings(s, findings, now) ==
    IF findings = <<>> THEN s
    ELSE add_findings(add_review_finding(s, findings[1], now),
                      Tail(findings), now)

\* analysis: Ok of the findings, cost and tokens Gemini returns, or Raised
review_code_node(s, analysis, now) ==
    LET reviewing == update_state(s, [current_step |-> "reviewing_code"], now)
    IN IF Get(reviewing.pr_data, "diff", "") = ""
       THEN update_state(reviewing, [current_step |-> "review_skipped"], now)
       ELSE IF analysis.raised
       THEN set_error(reviewing, Error("Code review failed"), now)
       ELSE update_state(
                update_metadata(
                    add_findings(reviewing, analysis.value.findings, now),
                    analysis.value.cost_usd, analysis.value.tokens_used,
                    TRUE, [model_name |-> "flash"], now),
                [current_step |-> "code_reviewed"], now)

Severities == {"CRITICAL", "HIGH", "MEDIUM", "LOW", "INFO"}

\* the number of findings with the value v in field k
CountBy(findings, k, v) ==
    Cardinality({i \in 1..Len(findings) : findings[i][k] = v})

classify_severity_node(s, now) ==
    LET classifying ==
            update_state(s, [current_step |-> "classifying_severity"], now)
        findings == classifying.review_results
        severity_counts ==
            [v \in Severities |-> CountBy(findings, "severity", v)]
        type_counts ==
            [v \in {findings[i].type : i \in 1..Len(findings)} |->
                CountBy(findings, "type", v)]
    IN update_state(
           update_metadata(
               classifying, 0, 0, FALSE,
               [severity_counts |-> severity_counts,
                type_counts |-> type_counts,
                total_findings |-> Len(findings),
                has_critical |-> severity_counts["CRITICAL"] > 0,
                has_high |-> severity_counts["HIGH"] > 0],
               now),
           [current_step |-> "severity_classified"], now)

\* posted: Ok when GitHub took the comment, else Raised; a failure to update
\* the commit status is logged and nothing more
post_review_node(s, posted, now) ==
    LET posting == update_state(s, [current_step |-> "posting_review"], now)
    IN IF NoInstallation(posting)
       THEN set_error(posting, Error("Installation ID not found"), now)
       ELSE IF posted.raised
       THEN set_error(posting, Error("Failed to post review"), now)
       ELSE update_state(posting, [current_step |-> "review_posted"], now)

check_critical_node(s, now) ==
    LET checking == update_state(s, [current_step |-> "checking_critical"],
                                 now)
        has_critical == Get(checking.metadata, "has_critical", FALSE)
        has_high == Get(checking.metadata, "has_high", FALSE)
    IN update_state(
           update_metadata(
               checking, 0, 0, FALSE,
               [requires_approval |-> has_critical \/ has_high,
                approval_reason |->
                    IF has_critical THEN "Critical issues found"
                    ELSE IF has_high THEN "High severity issues found"
                    ELSE "none"],
               now),
           [current_step |-> "critical_checked"], now)

request_approval_node(s, posted, now) ==
    LET requesting == update_state(s, [current_step |-> "requesting_approval"],
                                   now)
    IN IF NoInstallation(requesting)
       THEN set_error(requesting, Error("Installation ID not found"), now)
       ELSE IF posted.raised
       THEN set_error(requesting, Error("Failed to request approval"), now)
       ELSE update_state(requesting, [current_step |-> "approval_requested"],
                         now)

end_node(s, now) ==
    update_state(
        update_metadata(
            s, 0, 0, FALSE,
            [workflow_completed_at |-> now,
             workflow_duration_seconds |-> now - s.metadata.created_at],
            now),
        [current_step |-> "completed"], now)

\* ------------------------------ code_review_workflow.py: the graph
\* add_node
CodeReviewNodes ==
    {"start", "fetch_pr", "review_code", "classify_severity", "post_review",
     "check_critical", "request_approval", "end"}

\* add_edge and add_conditional_edges: the node after n, or "raised" when
\* the routing function returns a label the table of the edge has not
code_review_edges(n, s) ==
    CASE n = "start" -> "fetch_pr"
      [] n \in conditional_edges("code_review") ->
           LET label == route("code_review", n, s)
           IN IF label \in DOMAIN path_map("code_review", n)
              THEN path_map("code_review", n)[label]
              ELSE "raised"
      [] n = "review_code" -> "classify_severity"
      [] n = "classify_severity" -> "post_review"
      [] n = "post_review" -> "check_critical"
      [] n = "request_approval" -> "end"
      [] n = "end" -> "END"

\* what the collaborators of a node can answer
CodeReviewFindings ==
    {<<>>} \cup {<<[severity |-> v, type |-> "security"]>> :
                    v \in {"CRITICAL", "HIGH", "LOW"}}

code_review_outcomes(n) ==
    CASE n = "fetch_pr" ->
           {Ok([diff |-> diff, files |-> files]) :
              diff \in {"", "diff"}, files \in ChangedFiles} \cup {Raised}
      [] n = "review_code" ->
           {Ok([findings |-> findings, cost_usd |-> 3, tokens_used |-> 1]) :
              findings \in CodeReviewFindings} \cup {Raised}
      [] n \in {"post_review", "request_approval"} -> Answers
      [] OTHER -> {Ok(TRUE)}

code_review_node(n, s, o, now) ==
    CASE n = "start" -> start_node(s, now)
      [] n = "fetch_pr" -> fetch_pr_node(s, o, now)
      [] n = "review_code" -> review_code_node(s, o, now)
      [] n = "classify_severity" -> classify_severity_node(s, now)
      [] n = "post_review" -> post_review_node(s, o, now)
      [] n = "check_critical" -> check_critical_node(s, now)
      [] n = "request_approval" -> request_approval_node(s, o, now)
      [] n = "end" -> end_node(s, now)

\* ------------------------------ executor.py: execute_code_review_workflow
\* In this specification args holds the arguments of the call, seed the
\* settings, data the executor's local state, state the State the engine
\* passes from node to node, response what the executor returns and effects
\* what it leaves in the duplicate-prevention cache.
ExecutorArgs ==
    {[repo_name |-> "r1", pr_number |-> 7, installation_id |-> i,
      pr_metadata |-> m] :
        i \in {0, 456789},
        m \in {EmptyDict, [pr_title |-> "Fix", diff |-> "diff"]}}

ReviewInit ==
    /\ clock = StartClock
    /\ file = initial_data(StartClock)
    /\ seed \in {[enable_caching |-> b] : b \in BOOLEAN}
    /\ history = <<>>
    /\ lock = NoThread
    /\ pc = [t \in Threads |-> "idle"]
    /\ args \in ExecutorArgs
    /\ data = None
    /\ loaded = [t \in Threads |-> NoData]
    /\ counts = [t \in Threads |-> NoCounts]
    /\ result = [t \in Threads |-> NoResult]
    /\ calls = 0
    /\ tmp = NoFile
    /\ pipeline = "code_review"
    /\ node = "idle"
    /\ state = None
    /\ trace = <<>>
    /\ effects = {}
    /\ response = None
    /\ tracking = NoFile
    /\ decisions = {}

ReviewFrame ==
    UNCHANGED <<clock, file, lock, pc, args, counts, result, calls, loaded,
                seed, history, tmp, pipeline, tracking, decisions>>

\* steps 1 to 3: the initial State, its validation, compile_workflow; an
\* invalid State is returned with the validation error, an exception of
\* compile_workflow goes to the except clause
Execute ==
    /\ node = "idle"
    /\ response = None
    /\ LET created == initial_workflow_state(
                          args.repo_name, args.pr_number,
                          args.installation_id, args.pr_metadata, clock)
           valid == validate_workflow_state(created)
       IN /\ data' = created
          /\ IF ~valid.is_valid
             THEN /\ response' = set_error(created,
                                           Error("State validation failed"),
                                           clock)
                  /\ UNCHANGED <<node, state>>
             ELSE /\ \E compiled \in Answers :
                        node' = IF compiled.raised THEN "raised" ELSE "start"
                  /\ state' = created
                  /\ UNCHANGED response
    /\ UNCHANGED <<trace, effects>>
    /\ ReviewFrame

\* step 4, workflow.ainvoke: the engine calls the current node and follows
\* its edge
Invoke ==
    /\ node \in CodeReviewNodes
    /\ \E o \in code_review_outcomes(node) :
          LET s == code_review_node(node, state, o, clock)
          IN /\ state' = s
             /\ trace' = Append(trace, Called(node, TRUE, s, state))
             /\ node' = code_review_edges(node, s)
    /\ UNCHANGED <<data, effects, response>>
    /\ ReviewFrame

\* ainvoke raises for a reason of the engine
EngineRaises ==
    /\ node \in CodeReviewNodes
    /\ node' = "raised"
    /\ UNCHANGED <<state, trace, data, effects, response>>
    /\ ReviewFrame

\* step 5: a terminal State without error is cached when caching is on, and
\* the terminal State is returned
Finish ==
    /\ node = "END"
    /\ effects' = IF state.error = None /\ seed.enable_caching
                  THEN effects \cup {"marked_as_reviewed"}
                  ELSE effects
    /\ response' = state
    /\ node' = "idle"
    /\ UNCHANGED <<state, trace, data>>
    /\ ReviewFrame

\* mutant: the exception of the run leaves the executor
Except_reraises ==
    /\ node = "raised"
    /\ node' = "idle"
    /\ UNCHANGED <<state, trace, data, effects, response>>
    /\ ReviewFrame

\* the except clause: the executor's own State with the error of the run
Except ==
    /\ node = "raised"
    /\ response' = set_error(data, Error("Workflow execution failed"), clock)
    /\ node' = "idle"
    /\ UNCHANGED <<state, trace, data, effects>>
    /\ ReviewFrame

ReviewNext == Tick \/ Execute \/ Invoke \/ EngineRaises \/ Finish \/ Except

ReviewSpec == ReviewInit /\ [][ReviewNext]_vars

\* ---------------------------------------------------------------- C38
\* the State call number i of the run returned: the one the next call was
\* passed, or the State in hand
ReturnedBy(i) == IF i < Len(trace) THEN trace[i + 1].passed ELSE state

\* a State the review goes on with: no error, a diff, a changed file
Reviewable(s) ==
    /\ s.error = None
    /\ s.pr_data.diff # ""
    /\ Len(s.pr_data.files) >= 1

\* the calls of node n in the run
CallsOf(n) == {i \in 1..Len(trace) : trace[i].node = n}

\* the nodes between fetch_pr and end
ReviewNodes ==
    {"review_code", "classify_severity", "post_review", "check_critical",
     "request_approval"}

\* C38: review_code is called only right behind a fetch_pr that returned a
\* State without error, with a diff and with a changed file; behind a
\* fetch_pr that returned any other State the next node is end and none of
\* review_code, classify_severity, post_review, check_critical and
\* request_approval is called (a run the engine gave up behind fetch_pr has
\* no next node); end is called at most once, and exactly once in a run
\* that has come to END.
C38_ReviewOnlyWhenFetched ==
    pipeline = "code_review" /\ trace # <<>> =>
        /\ \A i \in CallsOf("review_code") :
              /\ i > 1
              /\ trace[i - 1].node = "fetch_pr"
              /\ Reviewable(trace[i].passed)
        /\ \A i \in CallsOf("fetch_pr") :
              ~Reviewable(ReturnedBy(i)) =>
                  /\ \A j \in 1..Len(trace) :
                        trace[j].node \notin ReviewNodes
                  /\ IF i < Len(trace)
                     THEN trace[i + 1].node = "end"
                     ELSE node \in {"end", "raised", "idle"}
        /\ Cardinality(CallsOf("end")) <= 1
        /\ node = "END" =>
              /\ Cardinality(CallsOf("end")) = 1
              /\ trace[Len(trace)].node = "end"

\* fetch_pr returned a diff and no file, and the run went from there to end
C38_Witness ==
    /\ pipeline = "code_review"
    /\ node = "END"
    /\ CalledNodes = <<"start", "fetch_pr", "end">>
    /\ state.error = None
    /\ state.pr_data.diff # ""
    /\ state.pr_data.files = <<>>

\* ---------------------------------------------------------------- C39
\* a WorkflowState
IsWorkflowState(s) ==
    DOMAIN s = {"pr_data", "review_results", "current_step", "error",
                "metadata"}

\* execute_code_review_workflow has been called and is over
Executed == data # None /\ node = "idle"

\* C39: execute_code_review_workflow returns a State whatever happens: a
\* call that is over has returned a WorkflowState; when compile_workflow or
\* ainvoke raised, the State has the error "Workflow execution failed" and
\* current_step "failed", and is otherwise the executor's initial State; and
\* the pull request is marked as reviewed only for a terminal State whose
\* error is unset.
C39_ExecutorAlwaysReturns ==
    /\ [](Executed => response # None /\ IsWorkflowState(response))
    /\ [][node = "raised" /\ node' # "raised" =>
            /\ response'.error = Error("Workflow execution failed")
            /\ response'.current_step = "failed"
            /\ response'.pr_data = data.pr_data
            /\ response'.review_results = data.review_results
            /\ effects' = effects]_vars
    /\ []("marked_as_reviewed" \in effects =>
            /\ response = state
            /\ state.error = None
            /\ trace[Len(trace)].node = "end")
    /\ [](Executed /\ response.error # None =>
            "marked_as_reviewed" \notin effects)

\* the engine raised in the middle of a run and the executor returned the
\* State with the error
C39_Witness ==
    /\ Executed
    /\ trace # <<>>
    /\ response # None
    /\ response.error = Error("Workflow execution failed")
    /\ response.current_step = "failed"
    /\ state.error = None
    /\ seed.enable_caching
    /\ effects = {}

\* -------------------------------------------- the six graphs of the program
\* a behaviour is a session of pipeline commands or a run of the code review
GraphsNext ==
    \/ pipeline # "code_review" /\ PipelineNext
    \/ pipeline = "code_review" /\ ReviewNext

GraphsSpec == (PipelineInit \/ ReviewInit) /\ [][GraphsNext]_vars

\* ---------------------------------------------------------------- C34
\* the engine has called a node of the run in hand, or the wrapper of one
NodeCalled ==
    /\ state # None /\ state' # None
    /\ Len(trace') = Len(trace) + 1

\* C34: in the five pipelines and in the code-review graph, a node (or the
\* rate-limit wrapper) that is passed a State with error set returns a State
\* with error set, so that once a call of the run has returned error, the
\* State of the run has error set from then on, the terminal State included.
C34_ErrorIsSticky ==
    /\ [][NodeCalled /\ state.error # None => state'.error # None]_vars
    /\ [](state # None /\ (\E i \in 1..Len(trace) : trace[i].error) =>
            state.error # None)

\* the limiter rejected a security run; post_no_issues ran behind the
\* wrapper and the terminal State has the error
C34_Witness ==
    /\ pipeline = "security_fix"
    /\ RunRejected
    /\ node = "END"
    /\ trace[Len(trace)].node = "post_no_issues"
    /\ trace[Len(trace)].ran
    /\ trace[Len(trace)].passed.error # None
    /\ state.error # None
====
